---- MODULE Spec2Model ----
(***************************************************************************)
(* Model of the archetype entity-component store of fourmisse-arena        *)
(* (src/src/ecs).  Indices are 0-based as in the Rust code; TLA+ sequences *)
(* are 1-based, so position i of a Vec is element i + 1 of the sequence.   *)
(* A HashMap is modelled as a set of <<key, value>> pairs with at most one *)
(* pair per key.  A panic ends the caller: the engine is dropped and takes *)
(* no further step.                                                        *)
(***************************************************************************)
EXTENDS Integers, Sequences, FiniteSets, TLC

\* ---------------------------------------------------------------- bounds
MaxEntities == 3
NumTypes == 2
MaxSteps == 6
MaxArchetypes == 4
MaxComponentId == 2

EntityIds == 0 .. (MaxEntities - 1)
Types == 0 .. (NumTypes - 1)
ComponentIds == 0 .. (NumTypes - 1)
\* The component ids handed to the archetype register when it is called directly
RegisterComponentIds == 0 .. MaxComponentId

\* Component values are opaque to the engine (Box<dyn Any>).  The value a
\* call binds names the entity and the type of the call, and a write through
\* component_mut changes the value to one no bind passes, so that a value
\* read from another cell or a lost write is told apart.
BindValue(entity, ty) == entity * NumTypes + ty + 1

WriteValue(old) == old + MaxEntities * NumTypes

VARIABLES entities, entity_infos, archetypes, ids, component_archetypes,
          panicked, last, spawned, deleted, carried, writes, stale

\* ResourceHandler (src/src/resources/mod.rs): the resources map, and for
\* each load call so far the id it returned and the resource it stored
VARIABLES resources, returned, stored

resourceVars == <<resources, returned, stored>>

\* InstructionsLoader (src/src/resources/instructions_loader.rs): the lines
\* of the .brain file at path, the loader's label_map, the instruction set
\* the last load returned and the number of loads made
VARIABLES brain, label_map, instructions, loads

loaderVars == <<brain, label_map, instructions, loads>>

\* Simulation (src/src/simulation): its entity handler (world), the size of
\* the map, the instructions its ants are given, the number of instructions
\* executed and the entities deleted so far
VARIABLES world, map_width, map_height, given, ticks, killed

simulationVars == <<world, map_width, map_height, given, ticks, killed>>

\* What the clients of the entity engine keep: it is untouched by the calls
\* made on an engine alone
clientVars == <<resourceVars, loaderVars, simulationVars>>

vars == <<entities, entity_infos, archetypes, ids, component_archetypes,
          panicked, last, spawned, deleted, carried, writes, stale, clientVars>>

\* ------------------------------------------------------- Vec and HashMap
\* usize: an index is valid for a Vec of length n iff 0 <= i < n.  A value
\* below 0 stands for the wrapped result of an unsigned underflow
\* (-1 is usize::MAX), which is out of bounds for every Vec.
InBounds(i, n) == i >= 0 /\ i < n

Nth(s, i) == s[i + 1]

VecSet(s, i, x) == [s EXCEPT ![i + 1] = x]

\* Vec::swap_remove: the last element takes the place of the removed one
VecRemove_swap(s, i) ==
  IF i + 1 = Len(s) THEN SubSeq(s, 1, Len(s) - 1)
  ELSE [k \in 1 .. (Len(s) - 1) |-> IF k = i + 1 THEN s[Len(s)] ELSE s[k]]

\* Vec::remove(i): everything after position i shifts down by one
VecRemove(s, i) == [k \in 1 .. (Len(s) - 1) |-> IF k <= i THEN s[k] ELSE s[k + 1]]

\* Vec::insert(i, x): everything from position i on shifts up by one
VecInsert(s, i, x) ==
  [k \in 1 .. (Len(s) + 1) |-> IF k <= i THEN s[k] ELSE IF k = i + 1 THEN x ELSE s[k - 1]]

\* iter().position(p): 0-based index of the first element satisfying p, -1 for None
PositionEq(s, x) ==
  IF \E k \in 1 .. Len(s) : s[k] = x
  THEN (CHOOSE k \in 1 .. Len(s) : s[k] = x /\ \A j \in 1 .. (k - 1) : s[j] # x) - 1
  ELSE -1

PositionGt(s, x) ==
  IF \E k \in 1 .. Len(s) : s[k] > x
  THEN (CHOOSE k \in 1 .. Len(s) : s[k] > x /\ \A j \in 1 .. (k - 1) : ~(s[j] > x)) - 1
  ELSE -1

MapHas(m, k) == \E p \in m : p[1] = k

MapGet(m, k) == (CHOOSE p \in m : p[1] = k)[2]

MapInsert(m, k, v) == {p \in m : p[1] # k} \cup {<<k, v>>}

MapKeys(m) == {p[1] : p \in m}

\* -------------------------------------------------------------- archetype.rs
\* xor_signature that puts an absent component at the end, sorted or not
xor_signature_push(signature, component_id) ==
  IF PositionEq(signature, component_id) >= 0
  THEN VecRemove(signature, PositionEq(signature, component_id))
  ELSE Append(signature, component_id)

\* xor_signature that removes the first component when the given one is present
xor_signature_front(signature, component_id) ==
  IF PositionEq(signature, component_id) >= 0
  THEN VecRemove(signature, 0)
  ELSE IF PositionGt(signature, component_id) >= 0
       THEN VecInsert(signature, PositionGt(signature, component_id), component_id)
       ELSE Append(signature, component_id)

\* xor_signature that never removes: the component is inserted again
xor_signature_insert(signature, component_id) ==
  IF PositionGt(signature, component_id) >= 0
  THEN VecInsert(signature, PositionGt(signature, component_id), component_id)
  ELSE Append(signature, component_id)

xor_signature(signature, component_id) ==
  IF PositionEq(signature, component_id) >= 0
  THEN VecRemove(signature, PositionEq(signature, component_id))
  ELSE IF PositionGt(signature, component_id) >= 0
       THEN VecInsert(signature, PositionGt(signature, component_id), component_id)
       ELSE Append(signature, component_id)

\* Archetype { id, signature, ..Default::default() }
NewArchetype(id, signature) ==
  [id |-> id, signature |-> signature, entity_ids |-> <<>>,
   components |-> <<>>, edges |-> {}]

\* A register that starts with a base archetype of one component
ArchetypeRegisterDefault_signed == <<NewArchetype(0, <<0>>)>>

\* ArchetypeRegister::default(): the unit archetype only
ArchetypeRegisterDefault == <<NewArchetype(0, <<>>)>>

next_archetype(archetype, component_id) ==
  IF MapHas(archetype.edges, component_id) THEN MapGet(archetype.edges, component_id) ELSE -1

add_edge(archetype, component_id, dest_archetype) ==
  [archetype EXCEPT !.edges = MapInsert(@, component_id, dest_archetype)]

\* extend_archetype that leaves the source archetype without its edge
extend_archetype_oneway(register, src_archetype_id, component_id) ==
  LET src_archetype == Nth(register, src_archetype_id)
      next_archetype_id == next_archetype(src_archetype, component_id)
  IN IF next_archetype_id >= 0
     THEN [register |-> register, id |-> next_archetype_id]
     ELSE LET id == Len(register)
              signature == xor_signature(src_archetype.signature, component_id)
              dest_archetype == add_edge(NewArchetype(id, signature), component_id, src_archetype_id)
          IN [register |-> Append(register, dest_archetype), id |-> id]

\* Returns the register after the call and the id of the destination archetype
extend_archetype(register, src_archetype_id, component_id) ==
  LET src_archetype == Nth(register, src_archetype_id)
      next_archetype_id == next_archetype(src_archetype, component_id)
  IN IF next_archetype_id >= 0
     THEN [register |-> register, id |-> next_archetype_id]
     ELSE LET id == Len(register)
              signature == xor_signature(src_archetype.signature, component_id)
              dest_archetype == add_edge(NewArchetype(id, signature), component_id, src_archetype_id)
              src_after == add_edge(src_archetype, component_id, id)
          IN [register |-> Append(VecSet(register, src_archetype_id, src_after), dest_archetype),
              id |-> id]

\* The walk that stays where it is when an edge is missing
RECURSIVE WalkFrom_skip(_, _, _, _)
WalkFrom_skip(register, signature, k, current) ==
  IF k > Len(signature) THEN current
  ELSE IF next_archetype(Nth(register, current), signature[k]) >= 0
       THEN WalkFrom_skip(register, signature, k + 1,
                          next_archetype(Nth(register, current), signature[k]))
       ELSE WalkFrom_skip(register, signature, k + 1, current)

\* ArchetypeRegister::archetype_id_from_signature(signature): the walk from
\* the unit archetype along one edge per component; -1 for None
RECURSIVE WalkFrom(_, _, _, _)
WalkFrom(register, signature, k, current) ==
  IF k > Len(signature) THEN current
  ELSE IF next_archetype(Nth(register, current), signature[k]) >= 0
       THEN WalkFrom(register, signature, k + 1,
                     next_archetype(Nth(register, current), signature[k]))
       ELSE -1

archetype_id_from_signature(register, signature) == WalkFrom(register, signature, 1, 0)

\* ArchetypeRegister::lookup(signature): the id of the archetype found, -1 for None
lookup(register, signature) == archetype_id_from_signature(register, signature)

\* Archetype::push_row(entity, row): one slot more in every column and in
\* the row-to-entity list; the new row's index is the old length
push_row(archetype, entity, row) ==
  LET ncols == IF Len(row) > Len(archetype.components) THEN Len(row) ELSE Len(archetype.components)
      column(i) == IF i <= Len(archetype.components) THEN archetype.components[i] ELSE <<>>
  IN [archetype |->
        [archetype EXCEPT
           !.entity_ids = Append(@, entity),
           !.components = [i \in 1 .. ncols |->
                             IF i <= Len(row) THEN Append(column(i), row[i]) ELSE column(i)]],
      row_index |-> Len(archetype.entity_ids)]

\* Archetype::remove_row(row_index) panics when the row does not exist
remove_row_panics(archetype, row_index) ==
  \/ ~InBounds(row_index, Len(archetype.entity_ids))
  \/ \E i \in 1 .. Len(archetype.components) : ~InBounds(row_index, Len(archetype.components[i]))

\* Archetype::remove_row(row_index): removes in place (no swap); returns the
\* removed values and the ids of the entities whose row moved down by one
remove_row(archetype, row_index) ==
  [archetype |->
     [archetype EXCEPT
        !.entity_ids = VecRemove(@, row_index),
        !.components = [i \in 1 .. Len(@) |-> VecRemove(@[i], row_index)]],
   row |-> [i \in 1 .. Len(archetype.components) |-> Nth(archetype.components[i], row_index)],
   shifted |-> SubSeq(archetype.entity_ids, row_index + 2, Len(archetype.entity_ids))]

\* Archetype::component::<T>(column, row): the cell, or a panic when the
\* cell does not exist or holds a value of another type
CellPanics(archetype, ty, column, row) ==
  \/ ~InBounds(column, Len(archetype.components))
  \/ ~InBounds(row, Len(Nth(archetype.components, column)))
  \/ Nth(Nth(archetype.components, column), row).ty # ty

Cell(archetype, column, row) == Nth(Nth(archetype.components, column), row)

\* -------------------------------------------------------------- component.rs
try_component_id(register, ty) == IF MapHas(register, ty) THEN MapGet(register, ty) ELSE -1

\* register_component that skips an id
register_component_gap(register, ty) == MapInsert(register, ty, Cardinality(register) + 1)

register_component(register, ty) == MapInsert(register, ty, Cardinality(register))

\* Returns the registry after the call and the id of the type
component_id(register, ty) ==
  IF MapHas(register, ty)
  THEN [register |-> register, id |-> MapGet(register, ty)]
  ELSE [register |-> register_component(register, ty), id |-> Cardinality(register)]

\* ---------------------------------------------------------------- ecs/mod.rs
\* EntityHandler::has_component::<ty>(entity): "true", "false" or "panic"
has_component(entity, ty) ==
  IF ~InBounds(entity, Len(entity_infos)) THEN "panic"
  ELSE LET archetype_id == Nth(entity_infos, entity).archetype_id
           id == try_component_id(ids, ty)
       IN IF id >= 0
          THEN IF ~InBounds(id, Len(component_archetypes)) THEN "panic"
               ELSE IF MapHas(Nth(component_archetypes, id), archetype_id) THEN "true" ELSE "false"
          ELSE "false"

\* -1 for None
get_component_column(cid, archetype_id) ==
  IF InBounds(cid, Len(component_archetypes)) /\ MapHas(Nth(component_archetypes, cid), archetype_id)
  THEN MapGet(Nth(component_archetypes, cid), archetype_id)
  ELSE -1

NoneResult == [kind |-> "none", val |-> 0]

PanicResult == [kind |-> "panic", val |-> 0]

\* EntityHandler::component::<ty>(entity): Some(value), None or a panic
component(entity, ty) ==
  LET cid == try_component_id(ids, ty)
  IN IF cid >= 0
     THEN IF ~InBounds(entity, Len(entity_infos)) THEN PanicResult
          ELSE LET entity_info == Nth(entity_infos, entity)
                   archetype_id == entity_info.archetype_id
                   column_index == get_component_column(cid, archetype_id)
               IN IF has_component(entity, ty) = "panic" THEN PanicResult
                  ELSE IF has_component(entity, ty) = "true"
                       THEN IF column_index < 0 THEN NoneResult
                            ELSE IF CellPanics(Nth(archetypes, archetype_id), ty, column_index,
                                               entity_info.row_index)
                                 THEN PanicResult
                                 ELSE [kind |-> "some",
                                       val |-> Cell(Nth(archetypes, archetype_id), column_index,
                                                    entity_info.row_index).val]
                       ELSE NoneResult
     ELSE NoneResult

\* EntityHandler::component_archetypes(component_id): the archetypes holding it
component_archetypes_of(cid) ==
  IF InBounds(cid, Len(component_archetypes)) THEN MapKeys(Nth(component_archetypes, cid)) ELSE {}

\* A query_archetypes that takes the empty query too
query_panics_never(query) == FALSE

\* EntityHandler::query_archetypes(query), line 149: next().unwrap() on the
\* query's iterator panics when the query names no component
query_panics(query) == Len(query) = 0

\* EntityHandler::query_archetypes(query) for a non-empty query
RECURSIVE IntersectFrom(_, _, _)
IntersectFrom(query, k, result) ==
  IF k > Len(query) THEN result
  ELSE IntersectFrom(query, k + 1, result \cap component_archetypes_of(query[k]))

query_archetypes_first(query) == component_archetypes_of(query[1])

query_archetypes(query) == IntersectFrom(query, 2, component_archetypes_of(query[1]))

\* EntityHandler::query(query): the entity ids the call returns, as the
\* number of times each id is returned.  The list is the concatenation of
\* the matching archetypes' row-to-entity lists in the iteration order of a
\* hash set, which is not specified: the order is left out of the result.
query(q) ==
  [e \in EntityIds |->
     Cardinality({p \in UNION {{<<a, i>> : i \in 1 .. Len(Nth(archetypes, a).entity_ids)} :
                                 a \in query_archetypes(q)} :
                    Nth(archetypes, p[1]).entity_ids[p[2]] = e})]

\* EntityHandler::component_id::<ty>(): the id of a registered type, -1 for None
EntityHandler_component_id(ty) == try_component_id(ids, ty)

\* A query! that sorts the ids it collected
query_macro_sorted(types) ==
  IF \E k \in 1 .. Len(types) : EntityHandler_component_id(types[k]) < 0 THEN PanicResult
  ELSE LET found == {EntityHandler_component_id(types[k]) : k \in 1 .. Len(types)}
           below(c) == Cardinality({d \in found : d < c})
       IN [kind |-> "some",
           val |-> [k \in 1 .. Cardinality(found) |-> CHOOSE c \in found : below(c) = k - 1]]

\* query!(ecs, types...): the id of the first type, unwrapped, then those of
\* the other types appended; a panic where component_id gives None
RECURSIVE query_macro(_)
query_macro(types) ==
  IF EntityHandler_component_id(Head(types)) < 0 THEN PanicResult
  ELSE IF Len(types) = 1 THEN [kind |-> "some", val |-> <<EntityHandler_component_id(Head(types))>>]
  ELSE LET rest == query_macro(Tail(types))
       IN IF rest.kind = "panic" THEN PanicResult
          ELSE [kind |-> "some",
                val |-> <<EntityHandler_component_id(Head(types))>> \o rest.val]

new_entity_id_reuse == [entities |-> entities + 1, id |-> Len(entity_infos)]

new_entity_id == [entities |-> entities + 1, id |-> (entities + 1) - 1]

\* bind_component, lines 116-118: the row-shift patch, applied in order.
\* The decrement of a row index 0 underflows: a build with overflow checks
\* panics there, a build without them wraps and goes on (underflow is set).
RECURSIVE PatchRows(_, _, _, _)
PatchRows(infos, shifted, k, underflow) ==
  IF k > Len(shifted) THEN [panic |-> FALSE, infos |-> infos, underflow |-> underflow]
  ELSE IF ~InBounds(shifted[k], Len(infos))
  THEN [panic |-> TRUE, infos |-> infos, underflow |-> underflow]
  ELSE PatchRows([infos EXCEPT ![shifted[k] + 1].row_index = @ - 1], shifted, k + 1,
                 underflow \/ Nth(infos, shifted[k]).row_index = 0)

\* The index registration with every column one too far
RegisterColumns_shifted(index, signature, new_archetype, k) ==
  [panic |-> \E i \in k .. Len(signature) : ~InBounds(signature[i], Len(index)),
   index |-> [c \in 1 .. Len(index) |->
                IF PositionEq(signature, c - 1) >= 0
                THEN MapInsert(index[c], new_archetype, PositionEq(signature, c - 1) + 1)
                ELSE index[c]]]

\* bind_component, lines 126-129: one more (empty) index entry, then every
\* component of the destination signature maps the archetype to its column
RECURSIVE RegisterColumns(_, _, _, _)
RegisterColumns(index, signature, new_archetype, k) ==
  IF k > Len(signature) THEN [panic |-> FALSE, index |-> index]
  ELSE IF ~InBounds(signature[k], Len(index)) THEN [panic |-> TRUE, index |-> index]
  ELSE RegisterColumns([index EXCEPT ![signature[k] + 1] = MapInsert(@, new_archetype, k - 1)],
                       signature, new_archetype, k + 1)

Panicked == [panic |-> TRUE, underflow |-> FALSE]

\* bind_component that puts the new value at the end of the row, whatever
\* the column of its component
bind_component_result_push(entity, ty, val) ==
  IF has_component(entity, ty) # "false" THEN Panicked
  ELSE
  LET entity_info == Nth(entity_infos, entity)
      src_archetype_id == entity_info.archetype_id
      reg == component_id(ids, ty)
      ext == extend_archetype(archetypes, src_archetype_id, reg.id)
      new_archetype == ext.id
      component_column == PositionEq(Nth(ext.register, new_archetype).signature, reg.id)
  IN IF component_column < 0 THEN Panicked
     ELSE IF remove_row_panics(Nth(ext.register, src_archetype_id), entity_info.row_index)
     THEN Panicked
     ELSE
     LET removed == remove_row(Nth(ext.register, src_archetype_id), entity_info.row_index)
         archetypes1 == VecSet(ext.register, src_archetype_id, removed.archetype)
     IN IF component_column > Len(removed.row) THEN Panicked
        ELSE
        LET components_row == Append(removed.row, [ty |-> ty, val |-> val])
            patched == PatchRows(entity_infos, removed.shifted, 1, FALSE)
        IN IF patched.panic THEN Panicked
           ELSE
           LET pushed == push_row(Nth(archetypes1, new_archetype), entity, components_row)
               archetypes2 == VecSet(archetypes1, new_archetype, pushed.archetype)
               infos2 == VecSet(patched.infos, entity,
                                [archetype_id |-> new_archetype, row_index |-> pushed.row_index])
               registered == RegisterColumns(Append(component_archetypes, {}),
                                             Nth(archetypes2, new_archetype).signature,
                                             new_archetype, 1)
           IN IF registered.panic THEN Panicked
              ELSE [panic |-> FALSE, underflow |-> patched.underflow,
                    entity_infos |-> infos2, archetypes |-> archetypes2,
                    ids |-> reg.register, component_archetypes |-> registered.index]

\* EntityHandler::bind_component::<ty>(entity, val): the engine after the
\* call, or panic; underflow tells that only a build without overflow checks
\* gets that far
bind_component_result(entity, ty, val) ==
  IF has_component(entity, ty) # "false" THEN Panicked
  ELSE
  LET entity_info == Nth(entity_infos, entity)
      src_archetype_id == entity_info.archetype_id
      reg == component_id(ids, ty)
      ext == extend_archetype(archetypes, src_archetype_id, reg.id)
      new_archetype == ext.id
      component_column == PositionEq(Nth(ext.register, new_archetype).signature, reg.id)
  IN IF component_column < 0 THEN Panicked
     ELSE IF remove_row_panics(Nth(ext.register, src_archetype_id), entity_info.row_index)
     THEN Panicked
     ELSE
     LET removed == remove_row(Nth(ext.register, src_archetype_id), entity_info.row_index)
         archetypes1 == VecSet(ext.register, src_archetype_id, removed.archetype)
     IN IF component_column > Len(removed.row) THEN Panicked
        ELSE
        LET components_row == VecInsert(removed.row, component_column, [ty |-> ty, val |-> val])
            patched == PatchRows(entity_infos, removed.shifted, 1, FALSE)
        IN IF patched.panic THEN Panicked
           ELSE
           LET pushed == push_row(Nth(archetypes1, new_archetype), entity, components_row)
               archetypes2 == VecSet(archetypes1, new_archetype, pushed.archetype)
               infos2 == VecSet(patched.infos, entity,
                                [archetype_id |-> new_archetype, row_index |-> pushed.row_index])
               registered == RegisterColumns(Append(component_archetypes, {}),
                                             Nth(archetypes2, new_archetype).signature,
                                             new_archetype, 1)
           IN IF registered.panic THEN Panicked
              ELSE [panic |-> FALSE, underflow |-> patched.underflow,
                    entity_infos |-> infos2, archetypes |-> archetypes2,
                    ids |-> reg.register, component_archetypes |-> registered.index]

Live == {spawned[i] : i \in 1 .. Len(spawned)} \ deleted

Call(op, entity, ty) == [op |-> op, entity |-> entity, ty |-> ty]

\* The number of calls that completed so far: spawns, binds, deletes and writes
Steps == entities + Len(component_archetypes) + (entities - Len(entity_infos)) + writes

NothingCarried == [e \in EntityIds |-> [t \in Types |-> 0]]

\* EntityHandler::default()
EntityHandlerDefault ==
  /\ entities = 0
  /\ entity_infos = <<>>
  /\ archetypes = ArchetypeRegisterDefault
  /\ ids = {}
  /\ component_archetypes = <<>>
  /\ panicked = FALSE
  /\ last = Call("new", -1, -1)
  /\ spawned = <<>>
  /\ deleted = {}
  /\ carried = NothingCarried
  /\ writes = 0
  /\ stale = FALSE

\* ResourceHandler::default()
ResourceHandlerDefault ==
  /\ resources = {}
  /\ returned = <<>>
  /\ stored = <<>>

\* InstructionsLoader::new(path), with lines the content of the file at path
InstructionsLoaderNew(lines) ==
  /\ brain = lines
  /\ label_map = {}
  /\ instructions = <<>>
  /\ loads = 0

\* The archetypes that hold the entities of a simulation once a cell or an
\* ant is built (the archetypes an entity passes through while its components
\* are bound are left empty), named after what they hold
ArchetypeKinds == {"obstacle", "empty", "nest", "ant"}

\* The entity handler of a simulation before any cell is added
NoEntities ==
  [entities |-> 0, entity_infos |-> <<>>, archetypes |-> [a \in ArchetypeKinds |-> <<>>]]

\* A simulation with no world loaded
SimulationDefault ==
  /\ world = NoEntities
  /\ map_width = 0
  /\ map_height = 0
  /\ given = {}
  /\ ticks = 0
  /\ killed = {}

\* An engine built on its own: no resource is loaded, the loader is one of
\* an empty file and no world is loaded
Init ==
  /\ EntityHandlerDefault
  /\ ResourceHandlerDefault
  /\ InstructionsLoaderNew(<<>>)
  /\ SimulationDefault

\* A panic unwinds the caller and drops the engine: no call follows, and
\* only the call that panicked is kept
Panic(op, entity, ty) ==
  /\ panicked' = TRUE
  /\ last' = Call(op, entity, ty)
  /\ entities' = 0
  /\ entity_infos' = <<>>
  /\ archetypes' = ArchetypeRegisterDefault
  /\ ids' = {}
  /\ component_archetypes' = <<>>
  /\ spawned' = <<>>
  /\ deleted' = {}
  /\ carried' = NothingCarried
  /\ writes' = 0
  /\ stale' = FALSE

spawn_entity ==
  /\ UNCHANGED clientVars
  /\ ~panicked
  /\ Steps < MaxSteps
  /\ entities < MaxEntities
  /\ LET fresh == new_entity_id
         pushed == push_row(Nth(archetypes, 0), fresh.id, <<>>)
     IN /\ entities' = fresh.entities
        /\ archetypes' = VecSet(archetypes, 0, pushed.archetype)
        /\ entity_infos' = Append(entity_infos,
                                  [archetype_id |-> Nth(archetypes, 0).id,
                                   row_index |-> pushed.row_index])
        /\ spawned' = Append(spawned, fresh.id)
        /\ last' = Call("spawn", fresh.id, -1)
  /\ UNCHANGED <<ids, component_archetypes, panicked, deleted, carried, writes, stale>>

\* EntityHandler::delete_entity(entity) panics on an index out of bounds
delete_entity_panics(entity) ==
  \/ ~InBounds(entity, Len(entity_infos))
  \/ remove_row_panics(Nth(archetypes, Nth(entity_infos, entity).archetype_id),
                       Nth(entity_infos, entity).row_index)

delete_entity(entity) ==
  /\ UNCHANGED clientVars
  /\ ~panicked
  /\ Steps < MaxSteps
  /\ IF delete_entity_panics(entity) THEN Panic("delete", entity, -1)
     ELSE LET entity_info == Nth(entity_infos, entity)
              archetype == Nth(archetypes, entity_info.archetype_id)
          IN      /\ archetypes' = VecSet(archetypes, entity_info.archetype_id,
                                          remove_row(archetype, entity_info.row_index).archetype)
                  /\ entity_infos' = VecRemove(entity_infos, entity)
                  /\ deleted' = deleted \cup {entity}
                  /\ stale' = (stale \/ entity \notin Live)
                  /\ last' = Call("delete", entity, -1)
                  /\ UNCHANGED <<entities, ids, component_archetypes, panicked, spawned, carried,
                                 writes>>

bind_component(entity, ty, val) ==
  /\ UNCHANGED clientVars
  /\ ~panicked
  /\ Steps < MaxSteps
  /\ LET result == bind_component_result(entity, ty, val)
     IN \/ /\ result.panic \/ result.underflow
           /\ Panic("bind", entity, ty)
        \/ /\ ~result.panic
           /\ entity_infos' = result.entity_infos
           /\ archetypes' = result.archetypes
           /\ ids' = result.ids
           /\ component_archetypes' = result.component_archetypes
           /\ carried' = IF entity \in Live THEN [carried EXCEPT ![entity][ty] = val]
                         ELSE carried
           /\ stale' = (stale \/ entity \notin Live)
           /\ last' = Call("bind", entity, ty)
           /\ UNCHANGED <<entities, panicked, spawned, deleted, writes>>

\* component_mut that looks the type up with component_id, which registers it
component_mut_registers(entity, ty) ==
  /\ UNCHANGED clientVars
  /\ ~panicked
  /\ Steps < MaxSteps
  /\ LET found == component(entity, ty)
     IN IF found.kind = "panic" THEN Panic("component_mut", entity, ty)
        ELSE IF found.kind = "none"
        THEN /\ last' = Call("component_mut", entity, ty)
             /\ writes' = writes + 1
             /\ stale' = (stale \/ entity \notin Live)
             /\ ids' = component_id(ids, ty).register
             /\ UNCHANGED <<entities, entity_infos, archetypes, component_archetypes,
                            panicked, spawned, deleted, carried>>
        ELSE LET entity_info == Nth(entity_infos, entity)
                 a == entity_info.archetype_id
                 column == get_component_column(try_component_id(ids, ty), a)
             IN /\ archetypes' =
                     [archetypes EXCEPT ![a + 1].components[column + 1][entity_info.row_index + 1].val =
                                          WriteValue(@)]
                /\ carried' = IF entity \in Live
                              THEN [carried EXCEPT ![entity][ty] = WriteValue(found.val)]
                              ELSE carried
                /\ last' = Call("component_mut", entity, ty)
                /\ writes' = writes + 1
                /\ stale' = (stale \/ entity \notin Live)
                /\ UNCHANGED <<entities, entity_infos, ids, component_archetypes,
                               panicked, spawned, deleted>>

\* EntityHandler::component_mut::<ty>(entity), followed by a write through
\* the reference it returns
component_mut(entity, ty) ==
  /\ UNCHANGED clientVars
  /\ ~panicked
  /\ Steps < MaxSteps
  /\ LET found == component(entity, ty)
     IN IF found.kind = "panic" THEN Panic("component_mut", entity, ty)
        ELSE IF found.kind = "none"
        THEN /\ last' = Call("component_mut", entity, ty)
             /\ writes' = writes + 1
             /\ stale' = (stale \/ entity \notin Live)
             /\ UNCHANGED <<entities, entity_infos, archetypes, ids, component_archetypes,
                            panicked, spawned, deleted, carried>>
        ELSE LET entity_info == Nth(entity_infos, entity)
                 a == entity_info.archetype_id
                 column == get_component_column(try_component_id(ids, ty), a)
             IN /\ archetypes' =
                     [archetypes EXCEPT ![a + 1].components[column + 1][entity_info.row_index + 1].val =
                                          WriteValue(@)]
                /\ carried' = IF entity \in Live
                              THEN [carried EXCEPT ![entity][ty] = WriteValue(found.val)]
                              ELSE carried
                /\ last' = Call("component_mut", entity, ty)
                /\ writes' = writes + 1
                /\ stale' = (stale \/ entity \notin Live)
                /\ UNCHANGED <<entities, entity_infos, ids, component_archetypes,
                               panicked, spawned, deleted>>

\* The queries the engine is called with: the empty one and those of one
\* component id (a non-empty query changes nothing, whatever its length)
QueryInputs == {<<>>} \cup {<<c>> : c \in ComponentIds}

\* EntityHandler::query(query) called on the engine: a panic for the empty
\* query, otherwise a read that leaves the engine as it is (what it returns
\* is the operator query)
query_call(q) ==
  /\ UNCHANGED clientVars
  /\ ~panicked
  /\ IF query_panics(q) THEN Panic("query", -1, -1)
     ELSE UNCHANGED vars

Next ==
  \/ spawn_entity
  \/ \E entity \in EntityIds : delete_entity(entity)
  \/ \E entity \in EntityIds, ty \in Types : bind_component(entity, ty, BindValue(entity, ty))
  \/ \E entity \in EntityIds, ty \in Types : component_mut(entity, ty)
  \/ \E q \in QueryInputs : query_call(q)

Spec == Init /\ [][Next]_vars

\* ------------------------------------------- the archetype register alone
\* ArchetypeRegister::extend_archetype(src_archetype_id, component_id) called
\* on the register directly, as the tests of archetype.rs do; last keeps the
\* source archetype and the component of the call
extend(src_archetype_id, cid) ==
  /\ UNCHANGED clientVars
  /\ LET result == extend_archetype(archetypes, src_archetype_id, cid)
     IN /\ Len(result.register) <= MaxArchetypes
        /\ archetypes' = result.register
  /\ last' = Call("extend", src_archetype_id, cid)
  /\ UNCHANGED <<entities, entity_infos, ids, component_archetypes, panicked,
                 spawned, deleted, carried, writes, stale>>

NextRegister ==
  \E src_archetype_id \in 0 .. (Len(archetypes) - 1), cid \in RegisterComponentIds :
    extend(src_archetype_id, cid)

SpecRegister == Init /\ [][NextRegister]_vars

\* The archetype the last extend call returned
Returned == next_archetype(Nth(archetypes, last.entity), last.ty)

\* ------------------------------------------------------ ResourceHandler
\* Bounds of the resource handler: loads made, resource types (the Item
\* types of the loaders) and the values a loader produces or a client writes
MaxResources == 3
NumResourceTypes == 2
MaxResourceValue == 2

ResourceIds == 0 .. MaxResources
ResourceTypes == 0 .. (NumResourceTypes - 1)
ResourceValues == 1 .. MaxResourceValue

\* Box<dyn Any>: the value together with the type it was boxed with
Boxed(ty, val) == [ty |-> ty, val |-> val]

\* A load that hands out the same id every time
load_id_zero(map) == 0

\* let id = self.resources.len()
load_id(map) == Cardinality(map)

\* get that does not look at the type of the stored resource
get_untyped(map, resource, ty) ==
  IF ~MapHas(map, resource) THEN [kind |-> "panic", val |-> "invalid id"]
  ELSE [kind |-> "some", val |-> MapGet(map, resource).val]

\* ResourceHandler::get::<ty>(resource): the resource stored under the id,
\* downcast to the type asked for; each of the two lookups panics on None
get(map, resource, ty) ==
  IF ~MapHas(map, resource) THEN [kind |-> "panic", val |-> "invalid id"]
  ELSE IF MapGet(map, resource).ty # ty THEN [kind |-> "panic", val |-> "invalid type"]
  ELSE [kind |-> "some", val |-> MapGet(map, resource).val]

\* ResourceHandler::get_mut::<ty>(resource): the same two lookups as get,
\* through get_mut and downcast_mut
get_mut(map, resource, ty) ==
  IF ~MapHas(map, resource) THEN [kind |-> "panic", val |-> "invalid id"]
  ELSE IF MapGet(map, resource).ty # ty THEN [kind |-> "panic", val |-> "invalid type"]
  ELSE [kind |-> "some", val |-> MapGet(map, resource).val]

ResourceCall(op, resource, ty, result) ==
  [op |-> op, entity |-> resource, ty |-> ty, result |-> result]

\* A panic of the handler unwinds the caller, which drops the handler
ResourcePanic(op, resource, ty, result) ==
  /\ panicked' = TRUE
  /\ last' = ResourceCall(op, resource, ty, result)
  /\ resources' = {}
  /\ returned' = <<>>
  /\ stored' = <<>>

\* The position, among the loads made so far, of the load that returned id
LoadOf(resource) == CHOOSE k \in 1 .. Len(returned) : returned[k] = resource

\* ResourceHandler::load(loader), with a loader whose load() gives val of
\* type ty
load(ty, val) ==
  /\ UNCHANGED <<loaderVars, simulationVars>>
  /\ ~panicked
  /\ Len(returned) < MaxResources
  /\ LET id == load_id(resources)
     IN /\ resources' = MapInsert(resources, id, Boxed(ty, val))
        /\ returned' = Append(returned, id)
        /\ stored' = Append(stored, Boxed(ty, val))
        /\ last' = ResourceCall("load", id, ty, [kind |-> "some", val |-> id])
  /\ UNCHANGED <<entities, entity_infos, archetypes, ids, component_archetypes,
                 panicked, spawned, deleted, carried, writes, stale>>

\* A call of get::<ty>(resource): the handler is read, or the call panics
get_call(resource, ty) ==
  /\ UNCHANGED <<loaderVars, simulationVars>>
  /\ ~panicked
  /\ LET result == get(resources, resource, ty)
     IN IF result.kind = "panic" THEN ResourcePanic("get", resource, ty, result)
        ELSE /\ last' = ResourceCall("get", resource, ty, result)
             /\ UNCHANGED <<panicked, resourceVars>>
  /\ UNCHANGED <<entities, entity_infos, archetypes, ids, component_archetypes,
                 spawned, deleted, carried, writes, stale>>

\* A call of get_mut::<ty>(resource) followed by a write of val through the
\* reference it returns
get_mut_call(resource, ty, val) ==
  /\ UNCHANGED <<loaderVars, simulationVars>>
  /\ ~panicked
  /\ LET result == get_mut(resources, resource, ty)
     IN IF result.kind = "panic" THEN ResourcePanic("get_mut", resource, ty, result)
        ELSE /\ resources' = MapInsert(resources, resource, Boxed(ty, val))
             /\ stored' = IF \E k \in 1 .. Len(returned) : returned[k] = resource
                          THEN [stored EXCEPT ![LoadOf(resource)] = Boxed(ty, val)]
                          ELSE stored
             /\ last' = ResourceCall("get_mut", resource, ty, result)
             /\ UNCHANGED <<panicked, returned>>
  /\ UNCHANGED <<entities, entity_infos, archetypes, ids, component_archetypes,
                 spawned, deleted, carried, writes, stale>>

NextResources ==
  \/ \E ty \in ResourceTypes, val \in ResourceValues : load(ty, val)
  \/ \E resource \in ResourceIds, ty \in ResourceTypes : get_call(resource, ty)
  \/ \E resource \in ResourceIds, ty \in ResourceTypes, val \in ResourceValues :
       get_mut_call(resource, ty, val)

SpecResources == Init /\ [][NextResources]_vars

\* --------------------------------------------------- InstructionsLoader
\* Bounds of the loader: lines of the file, label names, loads on one loader
MaxLines == 4
NumLabels == 2
MaxLoads == 2

LabelNames == 1 .. NumLabels

\* The lines of a .brain file.  A line that the instruction regex does not
\* match is a label line "name:" (or a blank line); of the instruction lines
\* the model keeps one that names a label, "Goto name", and one that names
\* none, "Drop"
LabelLine(name) == [kind |-> "label", name |-> name]

GotoLine(name) == [kind |-> "Goto", name |-> name]

DropLine == [kind |-> "Drop", name |-> 0]

BlankLine == [kind |-> "blank", name |-> 0]

Lines ==
  {LabelLine(n) : n \in LabelNames} \cup {GotoLine(n) : n \in LabelNames}
    \cup {DropLine, BlankLine}

BrainFiles == UNION {[1 .. n -> Lines] : n \in 0 .. MaxLines}

\* instruction_regex.is_match(&line)
is_match(line) == line.kind \in {"Goto", "Drop"}

\* The lines the first pass enumerates: trimmed, the empty ones filtered out
RECURSIVE NonEmpty(_)
NonEmpty(lines) ==
  IF lines = <<>> THEN <<>>
  ELSE IF Head(lines).kind = "blank" THEN NonEmpty(Tail(lines))
  ELSE <<Head(lines)>> \o NonEmpty(Tail(lines))

\* i - self.label_map.len(): usize, so that a result below 0 stands for the
\* wrapped result of the underflow
label_index(i, map) == i - Cardinality(map)

\* The first pass of load over the enumerated lines from index i on: every
\* line that is no instruction is inserted in the label map.  underflow
\* tells that a subtraction went below 0
RECURSIVE FirstPass(_, _, _, _)
FirstPass(lines, i, map, underflow) ==
  IF i >= Len(lines) THEN [label_map |-> map, underflow |-> underflow]
  ELSE IF is_match(Nth(lines, i)) THEN FirstPass(lines, i + 1, map, underflow)
  ELSE LET index == label_index(i, map)
       IN FirstPass(lines, i + 1, MapInsert(map, Nth(lines, i).name, index),
                    underflow \/ index < 0)

\* Instruction::from((line, &label_map)) panics on a label the map lacks
from_panics(line, map) == line.kind = "Goto" /\ ~MapHas(map, line.name)

\* Instruction::from((line, &label_map))
from(line, map) ==
  IF line.kind = "Goto" THEN [op |-> "Goto", label |-> MapGet(map, line.name)]
  ELSE [op |-> "Drop", label |-> 0]

\* The second pass of load: the instruction lines, in file order
RECURSIVE SecondPass(_, _)
SecondPass(lines, map) ==
  IF lines = <<>> THEN <<>>
  ELSE IF is_match(Head(lines))
  THEN <<from(Head(lines), map)>> \o SecondPass(Tail(lines), map)
  ELSE SecondPass(Tail(lines), map)

\* InstructionsLoader::load().  A subtraction that underflows panics in a
\* build with overflow checks and wraps in one without; a panic unwinds the
\* caller, which drops the loader
InstructionsLoader_load ==
  /\ ~panicked
  /\ loads < MaxLoads
  /\ LET first == FirstPass(NonEmpty(brain), 0, label_map, FALSE)
         undefined == \E j \in 1 .. Len(brain) : from_panics(brain[j], first.label_map)
     IN \/ /\ first.underflow \/ undefined
           /\ panicked' = TRUE
           /\ label_map' = {}
           /\ instructions' = <<>>
           /\ loads' = 0
        \/ /\ ~undefined
           /\ label_map' = first.label_map
           /\ instructions' = SecondPass(brain, first.label_map)
           /\ loads' = loads + 1
           /\ UNCHANGED panicked
  /\ last' = Call("load", loads, -1)
  /\ UNCHANGED <<entities, entity_infos, archetypes, ids, component_archetypes,
                 spawned, deleted, carried, writes, stale, resourceVars, brain,
                 simulationVars>>

InitLoader ==
  /\ EntityHandlerDefault
  /\ ResourceHandlerDefault
  /\ SimulationDefault
  /\ \E lines \in BrainFiles : InstructionsLoaderNew(lines)

NextLoader == InstructionsLoader_load

SpecLoader == InitLoader /\ [][NextLoader]_vars

\* body of the value of v, with v worked out once and then held, as a let
\* binding of the code holds it
With(v, body(_)) == CHOOSE result \in {body(held) : held \in {v}} : TRUE

\* ------------------------------------------------------------ Simulation
\* The entity handler as the simulation uses it.  Every cell and every ant
\* is built by one call that spawns it and binds all its components, so
\* that between two calls each entity sits in the archetype of its kind, in
\* the row it was pushed to.  The handler is kept as the id-indexed
\* entity_infos and, per archetype, its rows: the id of the entity
\* (entity_ids) and its components by type.
Signature(archetype_id) ==
  CASE archetype_id = "obstacle" -> {"Position", "CellType"}
    [] archetype_id = "empty" -> {"Position", "FoodContainer", "Markers", "CellType"}
    [] archetype_id = "nest" -> {"Position", "FoodContainer", "Markers", "CellType", "Colour"}
    [] archetype_id = "ant" ->
         {"Position", "FoodContainer", "Colour", "ExecutionContext", "Direction"}

\* The order in which a query walks the archetypes that match it
ArchetypeOrder == <<"obstacle", "empty", "nest", "ant">>

\* spawn_entity followed by the binds of one cell or ant: the entity gets the
\* next id and the last row of the archetype of its kind
SpawnWith(w, archetype_id, components) ==
  [entities |-> w.entities + 1,
   entity_infos |-> Append(w.entity_infos,
                           [archetype_id |-> archetype_id,
                            row_index |-> Len(w.archetypes[archetype_id])]),
   archetypes |-> [w.archetypes EXCEPT ![archetype_id] =
                     Append(@, [entity |-> w.entities, components |-> components])]]

\* EntityHandler::component::<ty>(entity) on the handler w: Some(value),
\* None, or a panic on an id or a row out of bounds
EntityComponent(w, entity, ty) ==
  IF ~InBounds(entity, Len(w.entity_infos)) THEN [kind |-> "panic", val |-> 0]
  ELSE LET entity_info == Nth(w.entity_infos, entity)
           rows == w.archetypes[entity_info.archetype_id]
       IN IF ty \notin Signature(entity_info.archetype_id) THEN [kind |-> "none", val |-> 0]
          ELSE IF ~InBounds(entity_info.row_index, Len(rows)) THEN [kind |-> "panic", val |-> 0]
          ELSE [kind |-> "some", val |-> Nth(rows, entity_info.row_index).components[ty]]

\* self.entities.component::<ty>(entity).unwrap(): None panics as well
Unwrap(option) == IF option.kind = "none" THEN [kind |-> "panic", val |-> 0] ELSE option

\* A write of val through self.entities.component_mut::<ty>(entity).unwrap(),
\* for an entity whose component is there
WriteComponent(w, entity, ty, val) ==
  LET entity_info == Nth(w.entity_infos, entity)
  IN [w EXCEPT !.archetypes[entity_info.archetype_id][entity_info.row_index + 1].components[ty] =
                 val]

\* EntityHandler::query(query!(types)): the entity ids of the rows of every
\* archetype that has all the types
RECURSIVE QueryFrom(_, _, _)
QueryFrom(w, types, k) ==
  IF k > Len(ArchetypeOrder) THEN <<>>
  ELSE LET rows == w.archetypes[ArchetypeOrder[k]]
       IN (IF types \subseteq Signature(ArchetypeOrder[k])
           THEN [i \in 1 .. Len(rows) |-> rows[i].entity]
           ELSE <<>>) \o QueryFrom(w, types, k + 1)

EntityQuery(w, types) == QueryFrom(w, types, 1)

\* EntityHandler::delete_entity(entity) on the handler w: the row of the
\* entity is removed from its archetype and the entry at index entity is
\* removed from entity_infos, out of bounds panics
DeleteEntityPanics(w, entity) ==
  \/ ~InBounds(entity, Len(w.entity_infos))
  \/ ~InBounds(Nth(w.entity_infos, entity).row_index,
               Len(w.archetypes[Nth(w.entity_infos, entity).archetype_id]))

DeleteEntity(w, entity) ==
  LET entity_info == Nth(w.entity_infos, entity)
  IN [w EXCEPT !.archetypes[entity_info.archetype_id] = VecRemove(@, entity_info.row_index),
               !.entity_infos = VecRemove(@, entity)]

\* ---------------------------------------------------- components_impl.rs
Directions == {"East", "SouthEast", "SouthWest", "West", "NorthWest", "NorthEast"}

\* Direction::iter()
DirectionIter == <<"East", "SouthEast", "SouthWest", "West", "NorthWest", "NorthEast">>

\* Position::translate(dir).  The coordinates are usize: -1 stands for the
\* wrapped result of 0 - 1, which a build with overflow checks panics on
translate(position, dir) ==
  CASE dir = "East" -> [x |-> position.x + 1, y |-> position.y]
    [] dir = "SouthEast" -> [x |-> position.x + 1, y |-> position.y + 1]
    [] dir = "SouthWest" -> [x |-> position.x - 1, y |-> position.y + 1]
    [] dir = "West" -> [x |-> position.x - 1, y |-> position.y]
    [] dir = "NorthWest" -> [x |-> position.x - 1, y |-> position.y - 1]
    [] dir = "NorthEast" -> [x |-> position.x + 1, y |-> position.y - 1]

\* The subtraction of translate underflows
translate_underflows(position, dir) ==
  \/ position.x = 0 /\ dir \in {"SouthWest", "West", "NorthWest"}
  \/ position.y = 0 /\ dir \in {"NorthWest", "NorthEast"}

\* Direction::right
right(dir) ==
  CASE dir = "West" -> "NorthWest"
    [] dir = "NorthWest" -> "NorthEast"
    [] dir = "NorthEast" -> "East"
    [] dir = "East" -> "SouthEast"
    [] dir = "SouthEast" -> "SouthWest"
    [] dir = "SouthWest" -> "West"

\* Direction::left
left(dir) ==
  CASE dir = "West" -> "SouthWest"
    [] dir = "SouthWest" -> "SouthEast"
    [] dir = "SouthEast" -> "East"
    [] dir = "East" -> "NorthEast"
    [] dir = "NorthEast" -> "NorthWest"
    [] dir = "NorthWest" -> "West"

\* Colour::opposite
opposite(colour) == IF colour = "Red" THEN "Black" ELSE "Red"

\* u32::MAX, the capacity of a cell: -1 stands for 2^32 - 1 as it does for
\* a wrapped subtraction, and holding < capacity is compared as unsigned
u32_MAX == -1

UnsignedLess(a, b) ==
  IF (a >= 0) = (b >= 0) THEN a < b ELSE b < 0

\* Markers::default()
MarkersDefault == [red_markers |-> 0, black_markers |-> 0]

\* Markers::get(colour)
markers_get(markers, colour) ==
  IF colour = "Red" THEN markers.red_markers ELSE markers.black_markers

\* bits & (1 << index) != 0, bits | (1 << index) and bits & !(1 << index)
BitIsSet(bits, index) == (bits \div (2 ^ index)) % 2 = 1

BitSet(bits, index) == IF BitIsSet(bits, index) THEN bits ELSE bits + 2 ^ index

BitClear(bits, index) == IF BitIsSet(bits, index) THEN bits - 2 ^ index ELSE bits

\* ------------------------------------------------------ simulation/map.rs
\* Simulation::add_empty_cell(x, y, food_units)
add_empty_cell(w, x, y, food_units) ==
  SpawnWith(w, "empty",
            [Position |-> [x |-> x, y |-> y],
             FoodContainer |-> [capacity |-> u32_MAX, holding |-> food_units],
             Markers |-> MarkersDefault,
             CellType |-> "Empty"])

\* Simulation::add_obstacle_cell(x, y)
add_obstacle_cell(w, x, y) ==
  SpawnWith(w, "obstacle", [Position |-> [x |-> x, y |-> y], CellType |-> "Obstacle"])

\* Simulation::add_nest_cell(x, y, colour, instruction_set_id): the cell,
\* then the ant that starts on it
add_nest_cell(w, x, y, colour, instruction_set_id) ==
  SpawnWith(
    SpawnWith(w, "nest",
              [Position |-> [x |-> x, y |-> y],
               FoodContainer |-> [capacity |-> u32_MAX, holding |-> 0],
               Markers |-> MarkersDefault,
               CellType |-> "Nest",
               Colour |-> colour]),
    "ant",
    [Position |-> [x |-> x, y |-> y],
     FoodContainer |-> [capacity |-> 1, holding |-> 0],
     Colour |-> colour,
     ExecutionContext |-> [current_instruction |-> 0,
                           instruction_set_id |-> instruction_set_id,
                           cooldown |-> 0],
     Direction |-> "East"])

\* c.to_digit(10).unwrap() for an ascii digit
AsciiDigits == <<"0", "1", "2", "3", "4", "5", "6", "7", "8", "9">>

to_digit(c) == (CHOOSE i \in 1 .. Len(AsciiDigits) : AsciiDigits[i] = c) - 1

\* Simulation::entities_from_world_file, the match on a character of the
\* world file: the cell it adds at (x, y); the instruction sets of the two
\* colours have ids 0 and 1
AddCell(w, c, x, y) ==
  CASE c = "#" -> add_obstacle_cell(w, x, y)
    [] c = "." -> add_empty_cell(w, x, y, 0)
    [] c = "+" -> add_nest_cell(w, x, y, "Red", 0)
    [] c = "-" -> add_nest_cell(w, x, y, "Black", 1)
    [] \E i \in 1 .. Len(AsciiDigits) : AsciiDigits[i] = c -> add_empty_cell(w, x, y, to_digit(c))
    [] OTHER -> w

\* A world built by one add call per character of a map, row after row,
\* with the column of the character as x and its row as y (the loop of
\* entities_from_world_file itself does not advance x)
RECURSIVE AddCells(_, _, _)
AddCells(w, rows, k) ==
  IF k >= Len(rows) * Len(rows[1]) THEN w
  ELSE LET x == k % Len(rows[1])
           y == k \div Len(rows[1])
       IN With(AddCell(w, rows[y + 1][x + 1], x, y), LAMBDA added :
            AddCells(added, rows, k + 1))

\* ------------------------------------------------ simulation/interpreter.rs
\* Program constants: the cooldown a Move sets, and the number of adjacent
\* enemies that kills an ant
MoveCooldown == 14
KillThreshold == 5

SomeOf(v) == [kind |-> "some", val |-> v]

NoneOf == [kind |-> "none", val |-> 0]

PanicOf == [kind |-> "panic", val |-> 0]

\* iterator.find(verdict) over the ids in order: the first id whose verdict
\* is true; a verdict that panics before that is a panic
FindFirst(found_ids, verdict(_)) ==
  With(found_ids, LAMBDA found :
    With({k \in 1 .. Len(found) : verdict(found[k]) # "false"}, LAMBDA hits :
      IF hits = {} THEN NoneOf
      ELSE With(CHOOSE k \in hits : \A j \in hits : k <= j, LAMBDA first :
             IF verdict(found[first]) = "panic" THEN PanicOf ELSE SomeOf(found[first]))))

\* The verdict of a closure on the unwrapped component ty of an entity
Is(w, entity, ty, holds(_)) ==
  LET c == Unwrap(EntityComponent(w, entity, ty))
  IN IF c.kind = "panic" THEN "panic" ELSE IF holds(c.val) THEN "true" ELSE "false"

\* a && b on verdicts, b evaluated only when a is true
Both(a, b) == IF a # "true" THEN a ELSE b

\* Simulation::in_bounds(position)
in_bounds(position) ==
  UnsignedLess(position.x, map_width) /\ UnsignedLess(position.y, map_height)

\* Simulation::cell_at_position(position)
cell_at_position(w, position) ==
  FindFirst(EntityQuery(w, {"Position", "CellType", "FoodContainer"}),
            LAMBDA c : Is(w, c, "Position", LAMBDA p : p = position))

\* cell_is_empty that looks at the ants only
cell_is_empty_of_ants(w, position) ==
  LET ant == FindFirst(EntityQuery(w, {"Position", "ExecutionContext"}),
                       LAMBDA e : Is(w, e, "Position", LAMBDA p : p = position))
  IN IF ant.kind = "panic" THEN "panic" ELSE IF ant.kind = "some" THEN "false" ELSE "true"

\* Simulation::cell_is_empty(position): "true", "false" or "panic"
cell_is_empty(w, position) ==
  With(FindFirst(EntityQuery(w, {"Position", "ExecutionContext"}),
                 LAMBDA e : Is(w, e, "Position", LAMBDA p : p = position)), LAMBDA ant :
    IF ant.kind = "panic" THEN "panic"
    ELSE IF ant.kind = "some" THEN "false"
    ELSE With(FindFirst(EntityQuery(w, {"Position", "CellType"}),
                        LAMBDA e : Both(Is(w, e, "CellType", LAMBDA t : t = "Obstacle"),
                                        Is(w, e, "Position", LAMBDA p : p = position))),
              LAMBDA obstacle :
           IF obstacle.kind = "panic" THEN "panic"
           ELSE IF obstacle.kind = "some" THEN "false"
           ELSE "true"))

\* Simulation::set_marker(position, colour, index) and unset_marker: the
\* handler after the call, or a panic
SetMarker(w, position, colour, index, change(_, _)) ==
  With(cell_at_position(w, position), LAMBDA cell :
    IF cell.kind = "panic" THEN PanicOf
    ELSE IF cell.kind = "none" THEN SomeOf(w)
    ELSE LET markers == Unwrap(EntityComponent(w, cell.val, "Markers"))
         IN IF markers.kind = "panic" THEN PanicOf
            ELSE SomeOf(WriteComponent(w, cell.val, "Markers",
                   IF colour = "Red"
                   THEN [markers.val EXCEPT !.red_markers = change(@, index)]
                   ELSE [markers.val EXCEPT !.black_markers = change(@, index)])))

set_marker(w, position, colour, index) == SetMarker(w, position, colour, index, BitSet)

unset_marker(w, position, colour, index) == SetMarker(w, position, colour, index, BitClear)

\* The conditions an ant senses: [name |-> ..., i |-> the bit of Marker(i)]
Cond(name) == [name |-> name, i |-> 0]

\* Simulation::check_cond(cond, colour, position): "true", "false" or "panic"
check_cond(w, cond, colour, position) ==
  LET at(e) == Is(w, e, "Position", LAMBDA p : p = position)
      ants == EntityQuery(w, {"Position", "ExecutionContext"})
      found ==
        CASE cond.name = "Friend" ->
               FindFirst(ants, LAMBDA a :
                 Both(at(a), Is(w, a, "Colour", LAMBDA c : c = colour)))
          [] cond.name = "Foe" ->
               FindFirst(ants, LAMBDA a :
                 Both(at(a), Is(w, a, "Colour", LAMBDA c : c = opposite(colour))))
          [] cond.name = "FriendWithFood" ->
               FindFirst(ants, LAMBDA a :
                 Both(at(a), Both(Is(w, a, "Colour", LAMBDA c : c = colour),
                                  Is(w, a, "FoodContainer", LAMBDA f : f.holding # 0))))
          [] cond.name = "FoeWithFood" ->
               FindFirst(ants, LAMBDA a :
                 Both(at(a), Both(Is(w, a, "Colour", LAMBDA c : c = opposite(colour)),
                                  Is(w, a, "FoodContainer", LAMBDA f : f.holding # 0))))
          [] cond.name = "Food" ->
               FindFirst(EntityQuery(w, {"Position", "CellType", "FoodContainer"}), LAMBDA c :
                 Both(at(c), Is(w, c, "FoodContainer", LAMBDA f : f.holding # 0)))
          [] cond.name = "Rock" ->
               FindFirst(EntityQuery(w, {"Position", "CellType"}), LAMBDA c :
                 Both(at(c), Is(w, c, "CellType", LAMBDA t : t = "Obstacle")))
          [] cond.name = "Marker" ->
               FindFirst(EntityQuery(w, {"Position", "Markers"}), LAMBDA c :
                 Both(at(c), Is(w, c, "Markers",
                                LAMBDA m : BitIsSet(markers_get(m, colour), cond.i))))
          [] cond.name = "FoeMarker" ->
               FindFirst(EntityQuery(w, {"Position", "Markers"}), LAMBDA c :
                 Both(at(c), Is(w, c, "Markers",
                                LAMBDA m : markers_get(m, opposite(colour)) # 0)))
          [] cond.name = "Home" ->
               FindFirst(EntityQuery(w, {"Position", "CellType", "Colour"}), LAMBDA c :
                 Both(at(c), Is(w, c, "Colour", LAMBDA k : k = colour)))
          [] cond.name = "FoeHome" ->
               FindFirst(EntityQuery(w, {"Position", "CellType", "Colour"}), LAMBDA c :
                 Both(at(c), Is(w, c, "Colour", LAMBDA k : k = opposite(colour))))
  IN With(found, LAMBDA first :
       IF first.kind = "panic" THEN "panic" ELSE IF first.kind = "some" THEN "true" ELSE "false")

\* Simulation::neightboring_cells(position): the translations of the
\* position that are in bounds, in the order of Direction::iter()
neightboring_cells(position) ==
  SelectSeq([k \in 1 .. Len(DirectionIter) |-> translate(position, DirectionIter[k])],
            in_bounds)

\* neightboring_cells translates in all six directions: it underflows for a
\* position in column 0 or row 0
neightboring_cells_underflows(position) == position.x = 0 \/ position.y = 0

\* Simulation::check_kill(position): the ant on the position when at least
\* five ants of the other colour stand on the neighbouring cells
check_kill(w, position) ==
  With(EntityQuery(w, {"Position", "ExecutionContext", "Colour"}), LAMBDA ants :
    LET neighboring_cells == {neightboring_cells(position)[k] :
                                k \in 1 .. Len(neightboring_cells(position))}
        current_position(k) == Unwrap(EntityComponent(w, ants[k], "Position"))
        colour(k) == Unwrap(EntityComponent(w, ants[k], "Colour"))
    IN IF \E k \in 1 .. Len(ants) :
            current_position(k).kind = "panic" \/ colour(k).kind = "panic"
       THEN PanicOf
       ELSE With({k \in 1 .. Len(ants) : current_position(k).val \in neighboring_cells},
                 LAMBDA near :
              LET red_ants == Cardinality({k \in near : colour(k).val = "Red"})
                  black_ants == Cardinality({k \in near : colour(k).val # "Red"})
              IN With({k \in 1 .. Len(ants) \ near : current_position(k).val = position},
                      LAMBDA here :
                   IF here = {} THEN NoneOf
                   ELSE With(CHOOSE k \in here : \A j \in here : j <= k, LAMBDA last_here :
                          IF \/ colour(last_here).val = "Red" /\ black_ants >= KillThreshold
                             \/ colour(last_here).val = "Black" /\ red_ants >= KillThreshold
                          THEN SomeOf(ants[last_here])
                          ELSE NoneOf))))

\* The instructions: Sense(dir, if_label, else_label, cond), Mark(i),
\* Unmark(i), Pickup(fail_label), Drop, Turn(dir), Move(fail_label),
\* Flip(p, if_label, else_label), Goto(label) and Dummy
Sense(dir, if_label, else_label, cond) ==
  [op |-> "Sense", dir |-> dir, if_label |-> if_label, else_label |-> else_label,
   cond |-> cond]

Mark(i) == [op |-> "Mark", i |-> i]

Unmark(i) == [op |-> "Unmark", i |-> i]

Pickup(fail_label) == [op |-> "Pickup", fail_label |-> fail_label]

Drop == [op |-> "Drop"]

Turn(dir) == [op |-> "Turn", dir |-> dir]

Move(fail_label) == [op |-> "Move", fail_label |-> fail_label]

Flip(p, if_label, else_label) ==
  [op |-> "Flip", p |-> p, if_label |-> if_label, else_label |-> else_label]

Goto(label) == [op |-> "Goto", label |-> label]

Dummy == [op |-> "Dummy"]

\* What the match of execute_instruction leaves: the handler, the jump label
\* (-1 for None), whether a subtraction underflowed on the way, and the
\* entities deleted; or a panic
Done(w, jump_label, underflow, dead) ==
  [panic |-> FALSE, world |-> w, jump_label |-> jump_label, underflow |-> underflow,
   deleted |-> dead]

Panics == [panic |-> TRUE, world |-> NoEntities, jump_label |-> -1, underflow |-> FALSE,
           deleted |-> {}]

ExecSense(w, entity, instruction) ==
  LET position == Unwrap(EntityComponent(w, entity, "Position"))
      direction == Unwrap(EntityComponent(w, entity, "Direction"))
      colour == Unwrap(EntityComponent(w, entity, "Colour"))
      towards == CASE instruction.dir = "Ahead" -> direction.val
                   [] instruction.dir = "Left" -> left(direction.val)
                   [] instruction.dir = "Right" -> right(direction.val)
                   [] OTHER -> "Here"
      target == IF towards = "Here" THEN position.val ELSE translate(position.val, towards)
      underflow == towards # "Here" /\ translate_underflows(position.val, towards)
  IN IF position.kind = "panic" \/ direction.kind = "panic" \/ colour.kind = "panic"
     THEN Panics
     ELSE With(check_cond(w, instruction.cond, colour.val, target), LAMBDA holds :
            IF holds = "panic" THEN Panics
            ELSE IF holds = "true" THEN Done(w, instruction.if_label, underflow, {})
            ELSE Done(w, instruction.else_label, underflow, {}))

ExecMark(w, entity, instruction) ==
  LET current_position == Unwrap(EntityComponent(w, entity, "Position"))
      colour == Unwrap(EntityComponent(w, entity, "Colour"))
  IN IF current_position.kind = "panic" \/ colour.kind = "panic" THEN Panics
     ELSE With(IF instruction.op = "Mark"
               THEN set_marker(w, current_position.val, colour.val, instruction.i)
               ELSE unset_marker(w, current_position.val, colour.val, instruction.i),
               LAMBDA marked :
            IF marked.kind = "panic" THEN Panics ELSE Done(marked.val, -1, FALSE, {}))

\* Pickup that does not look at the capacity of the ant
ExecPickup_greedy(w, entity, instruction) ==
  LET current_position == Unwrap(EntityComponent(w, entity, "Position"))
  IN IF current_position.kind = "panic" THEN Panics
     ELSE With(cell_at_position(w, current_position.val), LAMBDA cell :
            IF cell.kind = "panic" THEN Panics
            ELSE IF cell.kind = "none" THEN Done(w, -1, FALSE, {})
            ELSE LET ant_food == Unwrap(EntityComponent(w, entity, "FoodContainer"))
                     cell_food == Unwrap(EntityComponent(w, cell.val, "FoodContainer"))
                 IN IF ant_food.kind = "panic" \/ cell_food.kind = "panic" THEN Panics
                    ELSE IF cell_food.val.holding # 0
                    THEN With(WriteComponent(w, entity, "FoodContainer",
                                [ant_food.val EXCEPT !.holding = @ + 1]), LAMBDA taken :
                           LET left_food ==
                                 Unwrap(EntityComponent(taken, cell.val, "FoodContainer"))
                           IN Done(WriteComponent(taken, cell.val, "FoodContainer",
                                     [left_food.val EXCEPT !.holding = @ - 1]),
                                   -1, FALSE, {}))
                    ELSE Done(w, instruction.fail_label, FALSE, {}))

ExecPickup(w, entity, instruction) ==
  LET current_position == Unwrap(EntityComponent(w, entity, "Position"))
  IN IF current_position.kind = "panic" THEN Panics
     ELSE With(cell_at_position(w, current_position.val), LAMBDA cell :
            IF cell.kind = "panic" THEN Panics
            ELSE IF cell.kind = "none" THEN Done(w, -1, FALSE, {})
            ELSE LET ant_food == Unwrap(EntityComponent(w, entity, "FoodContainer"))
                     cell_food == Unwrap(EntityComponent(w, cell.val, "FoodContainer"))
                 IN IF ant_food.kind = "panic" \/ cell_food.kind = "panic" THEN Panics
                    ELSE IF /\ UnsignedLess(ant_food.val.holding, ant_food.val.capacity)
                          /\ cell_food.val.holding # 0
                    THEN With(WriteComponent(w, entity, "FoodContainer",
                                [ant_food.val EXCEPT !.holding = @ + 1]), LAMBDA taken :
                           LET left_food ==
                                 Unwrap(EntityComponent(taken, cell.val, "FoodContainer"))
                           IN Done(WriteComponent(taken, cell.val, "FoodContainer",
                                     [left_food.val EXCEPT !.holding = @ - 1]),
                                   -1, FALSE, {}))
                    ELSE Done(w, instruction.fail_label, FALSE, {}))

ExecDrop(w, entity, instruction) ==
  LET current_position == Unwrap(EntityComponent(w, entity, "Position"))
  IN IF current_position.kind = "panic" THEN Panics
     ELSE With(cell_at_position(w, current_position.val), LAMBDA cell :
            IF cell.kind = "panic" THEN Panics
            ELSE IF cell.kind = "none" THEN Done(w, -1, FALSE, {})
            ELSE LET ant_food == Unwrap(EntityComponent(w, entity, "FoodContainer"))
                 IN IF ant_food.kind = "panic" THEN Panics
                    ELSE IF ant_food.val.holding # 0
                    THEN With(WriteComponent(w, entity, "FoodContainer",
                                [ant_food.val EXCEPT !.holding = @ - 1]), LAMBDA dropped :
                           LET cell_food ==
                                 Unwrap(EntityComponent(dropped, cell.val, "FoodContainer"))
                           IN IF cell_food.kind = "panic" THEN Panics
                              ELSE Done(WriteComponent(dropped, cell.val, "FoodContainer",
                                          [cell_food.val EXCEPT !.holding = @ + 1]),
                                        -1, FALSE, {}))
                    ELSE Done(w, -1, FALSE, {}))

ExecTurn(w, entity, instruction) ==
  LET direction == Unwrap(EntityComponent(w, entity, "Direction"))
  IN IF direction.kind = "panic" THEN Panics
     ELSE Done(WriteComponent(w, entity, "Direction",
                 IF instruction.dir = "Left" THEN left(direction.val) ELSE right(direction.val)),
               -1, FALSE, {})

\* The cells of a hash set in the order it gives them
InOrder(cells, order) ==
  IF order = "iter" THEN cells ELSE [k \in 1 .. Len(cells) |-> cells[Len(cells) + 1 - k]]

\* The loop of Move over the neighbouring cells of the target, from cell k
\* on: every ant check_kill gives is deleted
RECURSIVE KillNeighbours(_, _, _, _, _)
KillNeighbours(w, cells, k, underflow, dead) ==
  IF k > Len(cells) THEN Done(w, -1, underflow, dead)
  ELSE With(check_kill(w, cells[k]), LAMBDA ant :
         With(underflow \/ neightboring_cells_underflows(cells[k]), LAMBDA edge :
           IF ant.kind = "panic" THEN Panics
           ELSE IF ant.kind = "none" THEN KillNeighbours(w, cells, k + 1, edge, dead)
           ELSE IF DeleteEntityPanics(w, ant.val) THEN Panics
           ELSE With(DeleteEntity(w, ant.val), LAMBDA deleted_from :
                  With(dead \cup {ant.val}, LAMBDA dead_now :
                    KillNeighbours(deleted_from, cells, k + 1, edge, dead_now)))))

ExecMove(w, entity, instruction, order) ==
  LET dir == Unwrap(EntityComponent(w, entity, "Direction"))
      position == Unwrap(EntityComponent(w, entity, "Position"))
  IN IF dir.kind = "panic" \/ position.kind = "panic" THEN Panics
     ELSE With(translate(position.val, dir.val), LAMBDA target :
            With(IF in_bounds(target) THEN cell_is_empty(w, target) ELSE "false", LAMBDA empty :
              LET underflow == translate_underflows(position.val, dir.val)
                  context == Unwrap(EntityComponent(w, entity, "ExecutionContext"))
                  edge == underflow \/ neightboring_cells_underflows(target)
              IN IF empty = "panic" THEN Panics
                 ELSE IF empty = "false" THEN Done(w, instruction.fail_label, underflow, {})
                 ELSE IF context.kind = "panic" THEN Panics
                 ELSE With(WriteComponent(
                             WriteComponent(w, entity, "Position", target),
                             entity, "ExecutionContext",
                             [context.val EXCEPT !.cooldown = MoveCooldown]), LAMBDA moved :
                        With(check_kill(moved, target), LAMBDA ant :
                          IF ant.kind = "panic" THEN Panics
                          ELSE IF ant.kind = "some"
                          THEN IF DeleteEntityPanics(moved, ant.val) THEN Panics
                               ELSE Done(DeleteEntity(moved, ant.val), -1, edge, {ant.val})
                          ELSE With(InOrder(neightboring_cells(target), order), LAMBDA cells :
                                 KillNeighbours(moved, cells, 1, edge, {}))))))

\* rng.gen_range(0..p) panics on the empty range; roll is what it gives
ExecFlip(w, entity, instruction, roll) ==
  IF instruction.p = 0 THEN Panics
  ELSE IF roll % instruction.p = 0 THEN Done(w, instruction.if_label, FALSE, {})
  ELSE Done(w, instruction.else_label, FALSE, {})

\* The match of execute_instruction
JumpLabel(w, entity, instruction, roll, order) ==
  CASE instruction.op = "Sense" -> ExecSense(w, entity, instruction)
    [] instruction.op \in {"Mark", "Unmark"} -> ExecMark(w, entity, instruction)
    [] instruction.op = "Pickup" -> ExecPickup(w, entity, instruction)
    [] instruction.op = "Drop" -> ExecDrop(w, entity, instruction)
    [] instruction.op = "Turn" -> ExecTurn(w, entity, instruction)
    [] instruction.op = "Move" -> ExecMove(w, entity, instruction, order)
    [] instruction.op = "Flip" -> ExecFlip(w, entity, instruction, roll)
    [] instruction.op = "Goto" -> Done(w, instruction.label, FALSE, {})
    [] OTHER -> Done(w, -1, FALSE, {})

\* Simulation::execute_instruction(entity, instruction): the match, then
\* the write of current_instruction
execute_instruction(w, entity, instruction, roll, order) ==
  With(JumpLabel(w, entity, instruction, roll, order), LAMBDA matched :
    IF matched.panic THEN Panics
    ELSE LET context == Unwrap(EntityComponent(matched.world, entity, "ExecutionContext"))
         IN IF context.kind = "panic" THEN Panics
            ELSE [matched EXCEPT
                    !.world = WriteComponent(matched.world, entity, "ExecutionContext",
                                [context.val EXCEPT !.current_instruction =
                                   IF matched.jump_label >= 0 THEN matched.jump_label
                                   ELSE @ + 1])])

\* Bound of the simulation: the instructions executed in one run
MaxTicks == 3

\* The orders in which the loop of Move is given the neighbouring cells by
\* the hash set that holds them
IterationOrders == {"iter", "reversed"}

\* The worlds the simulation is started on, each with its map size and the
\* instructions its ants are given.  The first has food, an obstacle and an
\* ant of each colour; in the second every cell holds food and a black ant
\* that moves east closes the ring of five black ants around the red one
Worlds ==
  {[rows |-> << <<"+", "2", "#">>,
                <<".", "-", ".">> >>,
    given |-> {Sense("Ahead", 1, 2, Cond("Food")), Mark(0), Unmark(0), Pickup(3), Drop,
               Turn("Left"), Move(4), Flip(2, 1, 2), Goto(3), Dummy}],
   [rows |-> << <<"1", "-", "1", "-">>,
                <<"-", "1", "+", "-">>,
                <<"1", "-", "1", "1">> >>,
    given |-> {Move(0), Pickup(1), Drop}]}

\* The ants of the handler w: the ids a query for ExecutionContext gives
Ants(w) == {EntityQuery(w, {"ExecutionContext"})[k] :
              k \in 1 .. Len(EntityQuery(w, {"ExecutionContext"}))}

ExecuteCall(entity, instruction) == [op |-> "execute", entity |-> entity, ty |-> instruction]

\* A call of execute_instruction(entity, instruction) for an ant of the
\* world and one of the instructions given; roll is what the random
\* generator gives a Flip.  An underflow panics in a build with overflow
\* checks and wraps in one without; a panic ends the simulation
execute(entity, instruction, roll, order) ==
  /\ ~panicked
  /\ ticks < MaxTicks
  /\ \E result \in {execute_instruction(world, entity, instruction, roll, order)} :
        \/ /\ result.panic \/ result.underflow
           /\ panicked' = TRUE
           /\ world' = NoEntities
           /\ ticks' = 0
           /\ killed' = {}
        \/ /\ ~result.panic
           /\ world' = result.world
           /\ ticks' = ticks + 1
           /\ killed' = killed \cup result.deleted
           /\ UNCHANGED panicked
  /\ last' = ExecuteCall(entity, instruction)
  /\ UNCHANGED <<entities, entity_infos, archetypes, ids, component_archetypes,
                 spawned, deleted, carried, writes, stale, resourceVars, loaderVars,
                 map_width, map_height, given>>

InitSimulation ==
  /\ EntityHandlerDefault
  /\ ResourceHandlerDefault
  /\ InstructionsLoaderNew(<<>>)
  /\ \E loaded \in Worlds :
       /\ world = AddCells(NoEntities, loaded.rows, 0)
       /\ map_width = Len(loaded.rows[1])
       /\ map_height = Len(loaded.rows)
       /\ given = loaded.given
  /\ ticks = 0
  /\ killed = {}

\* What the random generator may give a Flip, and the orders that tell a
\* Move apart (no other instruction draws a number or walks the cells)
Rolls(instruction) == IF instruction.op = "Flip" THEN {0, 1} ELSE {0}

Orders(instruction) == IF instruction.op = "Move" THEN IterationOrders ELSE {"iter"}

NextSimulation ==
  \E entity \in Ants(world), instruction \in given :
    \E roll \in Rolls(instruction), order \in Orders(instruction) :
      execute(entity, instruction, roll, order)

SpecSimulation == InitSimulation /\ [][NextSimulation]_vars


\* ------------------------------------------------------------ properties
\* Non-empty lists of component ids, repetitions and unregistered ids included
Queries == UNION {[1 .. n -> ComponentIds] : n \in 1 .. NumTypes}

\* The entities on which every component of q has been bound
Carriers(q) ==
  {e \in Live : \A k \in 1 .. Len(q) :
     \E t \in Types : try_component_id(ids, t) = q[k] /\ carried[e][t] # 0}

Some(v) == [kind |-> "some", val |-> v]

\* C1: every live entity's record names the archetype and the row that hold
\* the entity's id in the row-to-entity list.
C1_RowEntityAlignment ==
  ~stale =>
    \A e \in Live :
      /\ InBounds(e, Len(entity_infos))
      /\ LET info == Nth(entity_infos, e)
             archetype == Nth(archetypes, info.archetype_id)
         IN /\ InBounds(info.row_index, Len(archetype.entity_ids))
            /\ Nth(archetype.entity_ids, info.row_index) = e

\* C2: while only spawn_entity and bind_component have been called, a query
\* for a non-empty list of component ids returns exactly the entities on
\* which all of them were bound, each once, whatever the bind order was.
C2_QueryCorrect ==
  deleted = {} =>
    \A q \in Queries : \A e \in EntityIds :
      query(q)[e] = IF e \in Carriers(q) THEN 1 ELSE 0

\* Two entities carry the same two components, bound in opposite orders,
\* and a query for both components returns them
C2_Witness ==
  /\ deleted = {}
  /\ ~panicked
  /\ \E q \in Queries : \E e1, e2 \in Live :
       /\ Len(q) = 2 /\ q[1] # q[2]
       /\ e1 # e2 /\ query(q)[e1] = 1 /\ query(q)[e2] = 1
       /\ Nth(entity_infos, e1).archetype_id # Nth(entity_infos, e2).archetype_id

\* C3: a bind_component of a type not yet bound to a live entity completes,
\* and component then returns the bound value.
C3_ComponentRoundTrip ==
  [][\A e \in EntityIds, t \in Types :
       (/\ ~panicked /\ ~stale /\ e \in Live /\ carried[e][t] = 0
        /\ last' = Call("bind", e, t))
       => (~panicked' /\ component(e, t)' = Some(carried'[e][t]))]_vars

\* C4: once an entity is deleted no query returns it, and every surviving
\* entity carrying all the queried components is returned exactly once.
C4_QueryAfterDelete ==
  (~stale /\ deleted # {}) =>
    \A q \in Queries :
      /\ \A e \in deleted : query(q)[e] = 0
      /\ \A e \in Carriers(q) : query(q)[e] = 1

\* C5: delete_entity leaves has_component and component of every surviving
\* entity, for every type, as they were.
C5_DeleteNoCrossTalk ==
  [][(~panicked /\ ~panicked' /\ ~stale' /\ last'.op = "delete")
       => \A e \in Live', t \in Types :
            /\ has_component(e, t)' = has_component(e, t)
            /\ component(e, t)' = component(e, t)]_vars

\* C6: has_component on a deleted entity id panics, in every later state.
C6_HasComponentDeletedFatal ==
  (~panicked /\ ~stale) =>
    \A e \in deleted, t \in Types : has_component(e, t) = "panic"

\* C7: every operation taking an entity id panics on an id that was never
\* allocated or has been deleted, for every component type.
C7_UnknownIdFatal ==
  (~panicked /\ ~stale) =>
    \A e \in EntityIds \ Live, t \in Types :
      /\ delete_entity_panics(e)
      /\ has_component(e, t) = "panic"
      /\ component(e, t).kind = "panic"
      /\ bind_component_result(e, t, BindValue(e, t)).panic

\* C8: the n-th spawn_entity returns n - 1, whatever was deleted in between.
C8_EntityIdsMonotonic ==
  \A i \in 1 .. Len(spawned) : spawned[i] = i - 1

\* A spawn that follows the deletion of an earlier entity
C8_Witness ==
  /\ last.op = "spawn"
  /\ ~panicked
  /\ deleted # {}
  /\ Len(spawned) >= 2

\* C9: a bind_component of a type the entity already carries panics.
C9_RebindFatal ==
  [][\A e \in EntityIds, t \in Types :
       (/\ ~panicked /\ ~stale /\ e \in Live /\ carried[e][t] # 0
        /\ last' = Call("bind", e, t))
       => panicked']_vars

\* C10: no two distinct archetypes of the register have the same signature.
C10_SignatureIdentity ==
  \A a, b \in 1 .. Len(archetypes) :
    a # b => archetypes[a].signature # archetypes[b].signature

\* C11: every archetype of the register is found by lookup of its own
\* signature, the one the latest extend_archetype returned included.
C11_LookupExtendAgreement ==
  \A a \in 1 .. Len(archetypes) :
    lookup(archetypes, archetypes[a].signature) = archetypes[a].id

\* The components of a signature, as a set
SignatureSet(signature) == {signature[i] : i \in 1 .. Len(signature)}

\* A signature as xor_signature keeps it: strictly increasing ids
SignatureSorted(signature) ==
  \A i \in 1 .. (Len(signature) - 1) : signature[i] < signature[i + 1]

GraphSymmetric ==
  \A a \in 1 .. Len(archetypes) :
    \A edge \in archetypes[a].edges :
      /\ InBounds(edge[2], Len(archetypes))
      /\ <<edge[1], archetypes[a].id>> \in Nth(archetypes, edge[2]).edges

EdgesKept ==
  \A a \in 1 .. Len(archetypes) :
    /\ archetypes[a].edges \subseteq archetypes'[a].edges
    /\ \A e1, e2 \in archetypes'[a].edges : e1[1] = e2[1] => e1 = e2

\* C12: whenever archetype A has an edge for component c to archetype B, B
\* has an edge for c back to A; an extend_archetype call keeps every edge
\* there was and leaves one destination per component.
C12_GraphSymmetry == []GraphSymmetric /\ [][EdgesKept]_vars

\* The last call went back to the unit archetype along the second edge of a pair
C12_Witness ==
  /\ last.op = "extend"
  /\ last.entity # 0
  /\ Returned = 0
  /\ Len(archetypes) >= 3

\* C13: extend_archetype(src, c), called in any state of the register with
\* any src and c, returns an archetype whose signature is src's signature
\* with c toggled, sorted and without duplicates, whether the archetype is
\* created by the call or an edge of src is followed.
C13_EdgeLabelsAreXor ==
  \A src \in 0 .. (Len(archetypes) - 1), c \in RegisterComponentIds :
    LET result == extend_archetype(archetypes, src, c)
        dest == Nth(result.register, result.id)
        before == SignatureSet(Nth(archetypes, src).signature)
    IN /\ SignatureSet(dest.signature) = (before \ {c}) \cup ({c} \ before)
       /\ SignatureSorted(dest.signature)

\* The last call created an archetype by removing a component from its source
C13_Witness ==
  /\ last.op = "extend"
  /\ Returned = Len(archetypes) - 1
  /\ Len(Nth(archetypes, Returned).signature) < Len(Nth(archetypes, last.entity).signature)

\* The ids the components register has handed out
RegisteredIds == {try_component_id(ids, ty) : ty \in Types} \ {-1}

\* C14: for every registered component id c and every archetype a of the
\* register, the index of c has an entry for a exactly when c is in a's
\* signature, and the entry is the position of c in that signature.
C14_IndexConsistent ==
  \A c \in RegisteredIds :
    /\ InBounds(c, Len(component_archetypes))
    /\ \A a \in 1 .. Len(archetypes) :
         /\ MapHas(Nth(component_archetypes, c), archetypes[a].id)
              <=> c \in SignatureSet(archetypes[a].signature)
         /\ get_component_column(c, archetypes[a].id)
              = PositionEq(archetypes[a].signature, c)

\* An archetype of two components is indexed at column 1, after a delete
C14_Witness ==
  /\ deleted # {}
  /\ \E a \in 1 .. Len(archetypes) :
       /\ Len(archetypes[a].signature) = 2
       /\ get_component_column(archetypes[a].signature[2], archetypes[a].id) = 1

\* C15: for every live entity e whose record exists and every type T that
\* has_component reports on e, the cell at (the index's column for T in the
\* archetype of e's record, the row of e's record) exists and holds a value
\* of type T: no access leaves the table or fails its type check.
C15_AccessInTable ==
  ~stale =>
    \A e \in Live, ty \in Types :
      (InBounds(e, Len(entity_infos)) /\ has_component(e, ty) = "true") =>
        LET entity_info == Nth(entity_infos, e)
            column == get_component_column(try_component_id(ids, ty), entity_info.archetype_id)
        IN /\ column >= 0
           /\ ~CellPanics(Nth(archetypes, entity_info.archetype_id), ty, column,
                          entity_info.row_index)

C17_ComponentIffCarried ==
  ~stale =>
    \A e \in Live, ty \in Types :
      /\ (component(e, ty).kind = "some") <=> (carried[e][ty] # 0)
      /\ (component(e, ty).kind = "some") <=> (has_component(e, ty) = "true")
      /\ carried[e][ty] = 0 => component(e, ty) = NoneResult

\* C18: on a live entity e, has_component::<T> is true exactly when T is
\* registered and its id is in the signature of the archetype e's record
\* names, which is exactly when T was bound to e; it is false for a type
\* never registered and for an entity with nothing bound.
C18_HasComponentIffBound ==
  ~stale =>
    \A e \in Live, ty \in Types :
      /\ has_component(e, ty) \in {"true", "false"}
      /\ (has_component(e, ty) = "true") <=> (carried[e][ty] # 0)
      /\ (has_component(e, ty) = "true") <=>
           (/\ try_component_id(ids, ty) >= 0
            /\ try_component_id(ids, ty)
                 \in SignatureSet(Nth(archetypes, Nth(entity_infos, e).archetype_id).signature))

\* C19: a completed bind_component::<T>(e, v) on a live entity e keeps every
\* other component U bound to e: has_component::<U>(e) is still true and
\* component::<U>(e) returns the value it had.
C19_BindKeepsComponents ==
  [][\A e \in EntityIds, t \in Types :
       (/\ ~panicked /\ ~panicked' /\ ~stale /\ e \in Live /\ carried[e][t] = 0
        /\ last' = Call("bind", e, t))
       => \A u \in Types \ {t} :
            carried[e][u] # 0 =>
              /\ has_component(e, u)' = "true"
              /\ component(e, u)' = Some(carried[e][u])]_vars

\* C20: a completed bind_component::<T>(e, v) leaves has_component and
\* component of every other live entity, for every type, as they were.
C20_BindNoCrossTalk ==
  [][\A e \in EntityIds, t \in Types :
       (/\ ~panicked /\ ~panicked' /\ ~stale /\ e \in Live /\ carried[e][t] = 0
        /\ last' = Call("bind", e, t))
       => \A s \in Live \ {e}, u \in Types :
            /\ has_component(s, u)' = has_component(s, u)
            /\ component(s, u)' = component(s, u)]_vars

\* A cell that component_mut has written: WriteValue puts it above every BindValue
Written(val) == val > MaxEntities * NumTypes

WriteVisible ==
  ~stale =>
    \A e \in Live, ty \in Types :
      Written(carried[e][ty]) => component(e, ty) = Some(carried[e][ty])

WriteFrame ==
  \A e \in EntityIds, t \in Types :
    (/\ ~panicked /\ ~panicked' /\ ~stale /\ e \in Live /\ carried[e][t] # 0
     /\ last' = Call("component_mut", e, t) /\ writes' = writes + 1)
    => /\ component(e, t)' = Some(WriteValue(carried[e][t]))
       /\ \A s \in Live, u \in Types :
            (s # e \/ u # t) => component(s, u)' = component(s, u)

\* C21: a value written through component_mut::<T>(e) on a live entity is
\* what component::<T>(e) returns in every later state, after binds of other
\* types to e too, until the cell is written again; the write changes no
\* other component of e and no component of another live entity.
C21_WriteVisibleAndFramed == []WriteVisible /\ [][WriteFrame]_vars

\* The values of one row of an archetype, column by column
RowValues(archetype, row) ==
  [i \in 1 .. Len(archetype.components) |-> Nth(archetype.components[i], row)]

Bare == {e \in Live : \A ty \in Types : carried[e][ty] = 0}

UnitHoldsBare ==
  ~stale =>
    LET rows == Nth(archetypes, 0).entity_ids
    IN /\ {rows[i] : i \in 1 .. Len(rows)} = Bare
       /\ \A i, j \in 1 .. Len(rows) : rows[i] = rows[j] => i = j

SpawnAppends ==
  (~panicked /\ last'.op = "spawn" /\ entities' = entities + 1) =>
    /\ ~panicked'
    /\ Nth(archetypes', 0).entity_ids = Append(Nth(archetypes, 0).entity_ids, last'.entity)
    /\ Nth(entity_infos', Len(entity_infos') - 1)
         = [archetype_id |-> 0, row_index |-> Len(Nth(archetypes, 0).entity_ids)]

\* C23: the rows of the unit archetype are exactly the live entities to
\* which no component has been bound, each once; spawn_entity completes and
\* puts the new entity at the end of the unit archetype, at the row index
\* equal to the archetype's previous length.
C23_UnitArchetypeRows == []UnitHoldsBare /\ [][SpawnAppends]_vars

\* C24: right after initialization the register holds one archetype, with
\* no rows, no columns and no edges; in every state archetype 0 has id 0 and
\* the empty signature.
C24_UnitArchetypeOnInit ==
  /\ last.op = "new" =>
       /\ Len(archetypes) = 1
       /\ Nth(archetypes, 0).entity_ids = <<>>
       /\ Nth(archetypes, 0).components = <<>>
       /\ Nth(archetypes, 0).edges = {}
  /\ Nth(archetypes, 0).id = 0
  /\ Nth(archetypes, 0).signature = <<>>

\* A later state: archetype 0 has an edge for every component id, an entity
\* has left it and another is still in it
C24_Witness ==
  /\ \A c \in ComponentIds : next_archetype(Nth(archetypes, 0), c) >= 0
  /\ Len(Nth(archetypes, 0).entity_ids) >= 1
  /\ \E e \in Live : carried[e] # NothingCarried[e]

\* C25: every archetype's signature is strictly increasing, and so is what
\* xor_signature makes of it with any component id: an absent id is inserted
\* at its sorted position (front, middle or end), a present id is removed,
\* and the other ids stay.
C25_SignaturesSorted ==
  \A a \in 1 .. Len(archetypes), c \in RegisterComponentIds :
    LET signature == archetypes[a].signature
        toggled == xor_signature(signature, c)
    IN /\ SignatureSorted(signature)
       /\ SignatureSorted(toggled)
       /\ Len(toggled) = IF c \in SignatureSet(signature)
                         THEN Len(signature) - 1 ELSE Len(signature) + 1
       /\ SignatureSet(toggled) \ {c} = SignatureSet(signature) \ {c}
       /\ c \in SignatureSet(toggled) <=> c \notin SignatureSet(signature)

\* An archetype was created by inserting a component id in the middle of its
\* source's signature
C25_Witness ==
  /\ last.op = "extend"
  /\ Returned = Len(archetypes) - 1
  /\ Len(Nth(archetypes, Returned).signature) = 3
  /\ Nth(archetypes, Returned).signature[2] = last.ty

\* C26: for the signature S of every archetype and every component id c,
\* present in S or not, xor_signature(xor_signature(S, c), c) is S.
C26_XorSelfInverse ==
  \A a \in 1 .. Len(archetypes), c \in RegisterComponentIds :
    xor_signature(xor_signature(archetypes[a].signature, c), c) = archetypes[a].signature

\* The register holds a signature of every length from 0 to 3, so a middle
\* id is toggled both ways
C26_Witness ==
  \A n \in 0 .. 3 : \E a \in 1 .. Len(archetypes) : Len(archetypes[a].signature) = n

IdsInjective ==
  /\ \A p1, p2 \in ids : (p1[1] = p2[1] \/ p1[2] = p2[2]) => p1 = p2
  /\ {p[2] : p \in ids} = 0 .. (Cardinality(ids) - 1)
  /\ \A ty \in Types :
       LET first == component_id(ids, ty)
           second == component_id(first.register, ty)
       IN /\ second.id = first.id
          /\ second.register = first.register
          /\ try_component_id(first.register, ty) = first.id
          /\ IF try_component_id(ids, ty) >= 0
             THEN first.id = try_component_id(ids, ty) /\ first.register = ids
             ELSE first.id = Cardinality(ids)

IdsStable == ~panicked' => ids \subseteq ids'

\* C27: no type has two ids and no id two types, the ids handed out are
\* 0, 1, 2, ... in the order the types were first seen, component_id gives
\* the same id on every call for the same type, and no call of the engine
\* changes an id once assigned.
C27_IdsStableInjective == []IdsInjective /\ [][IdsStable]_vars

\* Every type is registered, one of them was bound to two entities (the
\* second bind got the old id back) and an entity has been deleted since
C27_Witness ==
  /\ Cardinality(ids) = NumTypes
  /\ deleted # {}
  /\ \E e1, e2 \in EntityIds, ty \in Types :
       e1 # e2 /\ carried[e1][ty] # 0 /\ carried[e2][ty] # 0

\* The types bound to some entity at some time
EverBound == {ty \in Types : \E e \in EntityIds : carried[e][ty] # 0}

RegisteredByBind ==
  ~stale =>
    \A ty \in Types :
      /\ try_component_id(ids, ty) >= 0 <=> ty \in EverBound
      /\ try_component_id(component_id(ids, ty).register, ty) = component_id(ids, ty).id

OnlyBindRegisters == (ids' # ids /\ ~panicked') => last'.op = "bind"

\* C28: try_component_id::<T> returns nothing until a bind_component::<T>
\* has completed and the id component_id::<T> assigned from then on; a call
\* that completes changes the registry only if it is a bind_component, so
\* component_mut, which looks ids up as has_component, component,
\* EntityHandler::component_id and query do, registers nothing.
C28_ReadsRegisterNothing == []RegisteredByBind /\ [][OnlyBindRegisters]_vars

\* component_mut on a type that is not registered returned None and left the
\* type unregistered, while another type is registered
C28_Witness ==
  /\ ~panicked
  /\ last.op = "component_mut"
  /\ try_component_id(ids, last.ty) = -1
  /\ ids # {}

\* C29: query with the empty component-id list panics, in whatever state it
\* is called, and a query that names at least one component id does not.
C29_EmptyQueryFatal ==
  /\ last.op = "query" => panicked
  /\ query_panics(<<>>)
  /\ \A q \in Queries : ~query_panics(q)

\* The empty query was made and the engine panicked
C29_Witness == panicked /\ last.op = "query"

\* Lists of distinct types, as they are written in a query!
TypeLists ==
  {types \in UNION {[1 .. n -> Types] : n \in 1 .. NumTypes} :
     \A i, j \in 1 .. Len(types) : types[i] = types[j] => i = j}

\* C30: query! panics when a listed type was never registered, and otherwise
\* gives one id per listed type, the k-th id being that of the k-th type: the
\* order of the list, not of the ids.
C30_QueryMacroOrder ==
  \A types \in TypeLists :
    IF \E k \in 1 .. Len(types) : try_component_id(ids, types[k]) < 0
    THEN query_macro(types) = PanicResult
    ELSE /\ query_macro(types).kind = "some"
         /\ Len(query_macro(types).val) = Len(types)
         /\ \A k \in 1 .. Len(types) :
              query_macro(types).val[k] = try_component_id(ids, types[k])

\* Every type is registered and a list of all types, in some order, gives
\* ids that are not in increasing order
C30_Witness ==
  \E types \in TypeLists :
    /\ Len(types) = NumTypes
    /\ query_macro(types).kind = "some"
    /\ \E k \in 1 .. (NumTypes - 1) : query_macro(types).val[k] > query_macro(types).val[k + 1]

\* The rows of all archetypes, as (archetype position, row position) pairs
AllRows ==
  UNION {{<<a, i>> : i \in 1 .. Len(archetypes[a].entity_ids)} : a \in 1 .. Len(archetypes)}

\* C33: every live entity id is in exactly one row of exactly one archetype,
\* no other id is in any row, and the number of rows is the number of spawns
\* less the number of deletes, which is the number of entity records.
C33_StoragePartition ==
  ~stale =>
    /\ \A e \in Live : Cardinality({p \in AllRows : archetypes[p[1]].entity_ids[p[2]] = e}) = 1
    /\ \A p \in AllRows : archetypes[p[1]].entity_ids[p[2]] \in Live
    /\ Cardinality(AllRows) = Len(spawned) - Cardinality(deleted)
    /\ Len(entity_infos) = Len(spawned) - Cardinality(deleted)

\* The strictly increasing signatures over the component ids of the register
SortedSignatures ==
  {[k \in 1 .. Cardinality(X) |-> CHOOSE c \in X : Cardinality({d \in X : d < c}) = k - 1] :
     X \in SUBSET RegisterComponentIds}

\* C34: for every strictly increasing signature S, lookup(S) returns nothing
\* or an archetype whose signature is S; lookup of the empty signature
\* returns the unit archetype; lookup of a signature with a component that is
\* in no archetype's signature returns nothing.
C34_LookupSound ==
  \A S \in SortedSignatures :
    /\ lookup(archetypes, S) >= 0 =>
         /\ InBounds(lookup(archetypes, S), Len(archetypes))
         /\ Nth(archetypes, lookup(archetypes, S)).signature = S
    /\ S = <<>> => lookup(archetypes, S) = 0
    /\ (\E k \in 1 .. Len(S) :
          \A a \in 1 .. Len(archetypes) : S[k] \notin SignatureSet(archetypes[a].signature))
         => lookup(archetypes, S) = -1

\* lookup finds an archetype of two components, and returns nothing for the
\* signature of another archetype that exists
C34_Witness ==
  /\ \E a \in 1 .. Len(archetypes) :
       /\ Len(archetypes[a].signature) = 2
       /\ lookup(archetypes, archetypes[a].signature) = archetypes[a].id
  /\ \E b \in 1 .. Len(archetypes) : lookup(archetypes, archetypes[b].signature) = -1

\* ------------------------------------------------------ ResourceHandler
ReturnedIds == {returned[k] : k \in 1 .. Len(returned)}

\* A get_mut call that returned a reference, through which a value was written
WroteResource == ~panicked' /\ last'.op = "get_mut" /\ last' # last

\* C31: the k-th load returns id k-1, so that no id is handed out twice;
\* get(id) with the type of the load gives the resource that load stored,
\* or the value last written to it through get_mut(id); and a write
\* through get_mut(id) leaves what get gives for every other id as it was
C31_LoadGetRoundTrip ==
  /\ [](~panicked =>
         /\ \A k \in 1 .. Len(returned) : returned[k] = k - 1
         /\ \A k \in 1 .. Len(returned) :
              get(resources, returned[k], stored[k].ty) = Some(stored[k].val))
  /\ [][WroteResource =>
          /\ get(resources', last'.entity, last'.ty).kind = "some"
          /\ \A resource \in ResourceIds \ {last'.entity}, ty \in ResourceTypes :
               get(resources', resource, ty) = get(resources, resource, ty)]_vars

\* Every load was made, and the last call wrote, to the resource of an
\* earlier load, a value other than the one it held
C31_Witness ==
  /\ ~panicked
  /\ Len(returned) = MaxResources
  /\ last.op = "get_mut"
  /\ last.entity < MaxResources - 1
  /\ last.result.val # MapGet(resources, last.entity).val

\* The call get::<ty>(resource) is invalid: no load returned the id, or the
\* load that returned it stored a resource of another type
InvalidGet(resource, ty) ==
  \/ resource \notin ReturnedIds
  \/ stored[LoadOf(resource)].ty # ty

\* C32: get and get_mut panic when called with an id no load returned, and
\* when called with a type other than that of the resource stored under the
\* id; a call that panics returns no reference
C32_GetPanics ==
  /\ [](~panicked =>
         \A resource \in ResourceIds, ty \in ResourceTypes :
           InvalidGet(resource, ty) =>
             /\ get(resources, resource, ty).kind = "panic"
             /\ get_mut(resources, resource, ty).kind = "panic")
  /\ [][(~panicked /\ last' # last /\ last'.op \in {"get", "get_mut"}
          /\ InvalidGet(last'.entity, last'.ty)) =>
          (panicked' /\ last'.result.kind = "panic" /\ resources' = {})]_vars

\* A call with the id of a loaded resource and another type panicked
C32_Witness ==
  /\ panicked
  /\ last.op \in {"get", "get_mut"}
  /\ last.result.val = "invalid type"

\* --------------------------------------------------- InstructionsLoader
\* The lines of the file that are instructions, by position in the file
InstructionLines == {j \in 1 .. Len(brain) : is_match(brain[j])}

\* The names the file defines, and the line of the last definition of each
Defined == {brain[j].name : j \in {k \in 1 .. Len(brain) : brain[k].kind = "label"}}

LastDefinition(name) ==
  CHOOSE j \in 1 .. Len(brain) :
    /\ brain[j] = LabelLine(name)
    /\ \A k \in (j + 1) .. Len(brain) : brain[k] # LabelLine(name)

\* The index, in the loaded instruction set, of the first instruction that
\* follows the last label line of the name
FirstInstructionAfter(name) ==
  Cardinality({j \in InstructionLines : j < LastDefinition(name)})

Loaded == ~panicked /\ loads > 0

\* C40: after a load, every label the file defines resolves to the index of
\* the first instruction that follows its (last) label line, in the label map
\* and in every instruction that names it; the instruction set holds the
\* instruction lines only; also on a second load of the same loader
C40_LabelsResolve ==
  Loaded =>
    /\ Len(instructions) = Cardinality(InstructionLines)
    /\ \A name \in Defined :
         /\ MapHas(label_map, name)
         /\ MapGet(label_map, name) = FirstInstructionAfter(name)
    /\ \A j \in InstructionLines :
         brain[j].kind = "Goto" =>
           instructions[Cardinality({k \in InstructionLines : k <= j})].label =
             FirstInstructionAfter(brain[j].name)

\* The same for the first load of a file that defines no name twice
C40_FirstLoadNoDuplicate ==
  (Loaded /\ loads = 1
   /\ \A j, k \in 1 .. Len(brain) :
        (brain[j].kind = "label" /\ brain[j] = brain[k]) => j = k)
    => C40_LabelsResolve

\* ------------------------------------------------------------ Simulation
\* The rows of the ants, and the row and the components of the ant with a
\* given id, read from the storage itself
AntRows(w) == w.archetypes["ant"]

AntIds(w) == {AntRows(w)[k].entity : k \in 1 .. Len(AntRows(w))}

AntRow(w, ant) == CHOOSE k \in 1 .. Len(AntRows(w)) : AntRows(w)[k].entity = ant

Of(w, ant, ty) == AntRows(w)[AntRow(w, ant)].components[ty]

\* The positions of the obstacle cells
Obstacles(w) ==
  {w.archetypes["obstacle"][k].components["Position"] :
     k \in 1 .. Len(w.archetypes["obstacle"])}

\* Every FoodContainer of the world, by archetype and row
FoodRows(w) ==
  UNION {{<<a, k>> : k \in 1 .. Len(w.archetypes[a])} : a \in {"empty", "nest", "ant"}}

Holding(w, r) == w.archetypes[r[1]][r[2]].components["FoodContainer"].holding

RECURSIVE SumHolding(_, _)
SumHolding(w, rs) ==
  IF rs = {} THEN 0
  ELSE LET r == CHOOSE r \in rs : TRUE
       IN Holding(w, r) + SumHolding(w, rs \ {r})

TotalFood(w) == SumHolding(w, FoodRows(w))

\* A call of execute_instruction that returned, for an instruction of ops
Executed(ops) ==
  /\ ~panicked /\ ~panicked'
  /\ ticks' = ticks + 1
  /\ last'.ty.op \in ops

\* The ant of the call could not pick food up: it was at capacity, or the
\* cell under it held none
CannotPickup ==
  \/ Of(world, last'.entity, "FoodContainer").holding >=
       Of(world, last'.entity, "FoodContainer").capacity
  \/ \A r \in FoodRows(world) \ {<<"ant", k>> : k \in 1 .. Len(AntRows(world))} :
       world.archetypes[r[1]][r[2]].components["Position"] =
         Of(world, last'.entity, "Position") => Holding(world, r) = 0

\* C35: a Pickup or a Drop leaves the sum of holding over all food
\* containers as it was; no ant ever holds more than its capacity and no
\* container less than nothing; a Pickup that cannot proceed leaves every
\* food count as it was
C35_FoodConserved ==
  /\ [](~panicked =>
         /\ \A r \in FoodRows(world) : Holding(world, r) >= 0
         /\ \A k \in 1 .. Len(AntRows(world)) :
              AntRows(world)[k].components["FoodContainer"].holding <=
                AntRows(world)[k].components["FoodContainer"].capacity)
  /\ [][Executed({"Pickup", "Drop"}) =>
          /\ TotalFood(world') = TotalFood(world)
          /\ (last'.ty.op = "Pickup" /\ CannotPickup) =>
                \A r \in FoodRows(world) : Holding(world', r) = Holding(world, r)]_vars

\* An ant that holds food was refused a second unit
C35_Witness ==
  /\ ~panicked
  /\ last.op = "execute"
  /\ last.ty.op = "Pickup"
  /\ last.entity \in AntIds(world)
  /\ Of(world, last.entity, "FoodContainer").holding = 1
  /\ Of(world, last.entity, "ExecutionContext").current_instruction = last.ty.fail_label

Called(ops) ==
  /\ ~panicked
  /\ panicked' \/ ticks' = ticks + 1
  /\ last'.op = "execute"
  /\ last'.ty.op \in ops

\* The cell ahead of the ant of the call, and whether it is in bounds and
\* holds neither an ant nor an obstacle
Ahead == translate(Of(world, last'.entity, "Position"), Of(world, last'.entity, "Direction"))

AheadFree ==
  /\ Ahead.x \in 0 .. (map_width - 1)
  /\ Ahead.y \in 0 .. (map_height - 1)
  /\ Ahead \notin Obstacles(world)
  /\ \A k \in 1 .. Len(AntRows(world)) : AntRows(world)[k].components["Position"] # Ahead

\* C37: a Move whose cell ahead is in bounds and empty puts the ant on that
\* cell with cooldown 14 and leaves its direction, colour and food as they
\* were; any other Move leaves position, direction and cooldown as they
\* were, also at the edge where the cell ahead would have a coordinate
\* below zero
C37_MoveEffect ==
  [][Called({"Move"}) =>
      /\ ~panicked'
      /\ last'.entity \in AntIds(world')
      /\ Of(world', last'.entity, "Direction") = Of(world, last'.entity, "Direction")
      /\ IF AheadFree
         THEN /\ Of(world', last'.entity, "Position") = Ahead
              /\ Of(world', last'.entity, "ExecutionContext").cooldown = MoveCooldown
              /\ Of(world', last'.entity, "Colour") = Of(world, last'.entity, "Colour")
              /\ Of(world', last'.entity, "FoodContainer") =
                   Of(world, last'.entity, "FoodContainer")
         ELSE /\ Of(world', last'.entity, "Position") = Of(world, last'.entity, "Position")
              /\ Of(world', last'.entity, "ExecutionContext").cooldown =
                   Of(world, last'.entity, "ExecutionContext").cooldown]_vars

\* The ants of w of the colour opposite to colour that stand on a cell next
\* to position, the ant mover taken as standing on the cell target
Adjacent(position, other) == \E dir \in Directions : translate(position, dir) = other

StandsOn(w, ant, mover, target) == IF ant = mover THEN target ELSE Of(w, ant, "Position")

EnemiesAround(w, position, colour, mover, target) ==
  {b \in AntIds(w) : /\ Of(w, b, "Colour") = opposite(colour)
                     /\ Adjacent(position, StandsOn(w, b, mover, target))}

\* The moving ant is itself surrounded on the cell it moves to
MoverKilled ==
  /\ last'.ty.op = "Move"
  /\ AheadFree
  /\ Cardinality(EnemiesAround(world, Ahead, Of(world, last'.entity, "Colour"),
                               last'.entity, Ahead)) >= KillThreshold

\* The cell a Sense looks at, and the cells with a food container at the
\* position of the ant of the call
SenseTarget ==
  LET position == Of(world, last'.entity, "Position")
      direction == Of(world, last'.entity, "Direction")
  IN CASE last'.ty.dir = "Ahead" -> translate(position, direction)
       [] last'.ty.dir = "Left" -> translate(position, left(direction))
       [] last'.ty.dir = "Right" -> translate(position, right(direction))
       [] OTHER -> position

CellsUnder ==
  {r \in FoodRows(world) \ {<<"ant", k>> : k \in 1 .. Len(AntRows(world))} :
     world.archetypes[r[1]][r[2]].components["Position"] = Of(world, last'.entity, "Position")}

\* The values the claim allows current_instruction after the call (either
\* label of a Flip; either outcome of a Pickup with no cell under the ant)
NextInstructions ==
  LET instruction == last'.ty
      next == Of(world, last'.entity, "ExecutionContext").current_instruction + 1
  IN CASE instruction.op = "Sense" ->
            {IF check_cond(world, instruction.cond, Of(world, last'.entity, "Colour"),
                           SenseTarget) = "true"
             THEN instruction.if_label ELSE instruction.else_label}
       [] instruction.op = "Flip" -> {instruction.if_label, instruction.else_label}
       [] instruction.op = "Goto" -> {instruction.label}
       [] instruction.op = "Pickup" ->
            IF CellsUnder = {} THEN {next, instruction.fail_label}
            ELSE IF CannotPickup THEN {instruction.fail_label} ELSE {next}
       [] instruction.op = "Move" -> IF AheadFree THEN {next} ELSE {instruction.fail_label}
       [] OTHER -> {next}

Operations == {"Sense", "Mark", "Unmark", "Pickup", "Drop", "Turn", "Move", "Flip", "Goto",
               "Dummy"}

\* C38: a call of execute_instruction for an ant that survives it returns
\* with the ant's current_instruction at the label taken (Sense, Flip, Goto),
\* at the fail label (a Pickup or Move that failed) or one past its previous
\* value (every other case), and with the current_instruction of every
\* other ant as it was
C38_InstructionPointer ==
  [][Called(Operations) /\ ~MoverKilled =>
      /\ ~panicked'
      /\ last'.entity \in AntIds(world')
      /\ Of(world', last'.entity, "ExecutionContext").current_instruction \in NextInstructions
      /\ \A a \in (AntIds(world) \cap AntIds(world')) \ {last'.entity} :
           Of(world', a, "ExecutionContext").current_instruction =
             Of(world, a, "ExecutionContext").current_instruction]_vars

AntComponents == {"Position", "Colour", "Direction", "FoodContainer", "ExecutionContext"}

\* C39: a Move deletes an ant only if the Move succeeded, the ant stands on
\* the target cell or next to it and five or more ants of the opposite
\* colour stand next to the ant; after a Move that deleted an ant every
\* other ant is found under its own id with each of its components, and
\* every ant but the mover has them as they were
C39_KillRule ==
  [][Executed({"Move"}) =>
      /\ \A a \in AntIds(world) \ AntIds(world') :
           /\ AheadFree
           /\ \/ StandsOn(world, a, last'.entity, Ahead) = Ahead
              \/ Adjacent(Ahead, StandsOn(world, a, last'.entity, Ahead))
           /\ Cardinality(EnemiesAround(world, StandsOn(world, a, last'.entity, Ahead),
                                        Of(world, a, "Colour"), last'.entity, Ahead))
                >= KillThreshold
      /\ AntIds(world') # AntIds(world) =>
           \A a \in AntIds(world'), ty \in AntComponents :
             /\ EntityComponent(world', a, ty) = SomeOf(Of(world', a, ty))
             /\ a # last'.entity => Of(world', a, ty) = Of(world, a, ty)]_vars
====
